---- MODULE Spec2Model ----
(***************************************************************************)
(* Verification model of the video ranking service                         *)
(* (src/youtube_semantic_search.py behind src/main.py's /search-videos).   *)
(*                                                                         *)
(* Conventions of the encoding                                             *)
(*   - a Python str is a tuple of one-character strings;                   *)
(*   - a duration in minutes is held in sixtieths of a minute, so that     *)
(*     int(m) + int(s)/60 of the fallback source is exact: Minutes(n)      *)
(*     is n minutes;                                                       *)
(*   - a score is held in millionths (Unit is 1.0); the final score is     *)
(*     accumulated in hundred-millionths and rounded to ten-thousandths;   *)
(*   - a value that may be None is tagged: PyNum(n) or PyNone.             *)
(***************************************************************************)
EXTENDS Integers, Sequences, FiniteSets, TLC

\* a dynamically typed Python value that is an int or None
PyNone == [type |-> "none", val |-> 0]
PyNum(n) == [type |-> "int", val |-> n]
IsNum(x) == x.type = "int"

\* ------------------------------------------------------------------------
\* Bounds of the model
\* ------------------------------------------------------------------------
\* longest provider answer drawn item by item from the catalogues
MaxLen == 2
\* length of the long provider answers (more survivors than the output cap)
LongLen == 12
\* worker threads of the server's thread pool
NumThreads == 2
\* requests the workers take in one run
MaxRequests == 3
\* most hours of a duration handed to the parsers
MaxHours == 1
\* longest duration, in minutes, handed to the duration bands
MaxDuration == 21
\* most days since publication handed to the recency score
MaxDays == 2600
MaxQueryLen == 151

\* ------------------------------------------------------------------------
\* Program constants
\* ------------------------------------------------------------------------
\* semantic_search: search_with_fallback(search_query, max_results=30)
OverFetch == 30
\* semantic_search: scored_videos[:10]
TopN == 10
\* semantic_search: v['duration_minutes'] >= 2
MinDurationMinutes == 2
\* semantic_search: v['duration_minutes'] <= 15  (relaxed pass)
RelaxedMaxMinutes == 15
\* semantic_search: ' '.join(search_parts)[:150]
SearchQueryMaxLen == 150
\* semantic_search: selected_text[:300], transcript_segment[:300]
SnippetMaxLen == 300
\* semantic_search: video['description'][:500]
DescriptionMaxLen == 500
\* get_days_since_published: return 365
DefaultDays == 365

\* 1.0 in millionths
Unit == 1000000
Minutes(n) == 60 * n

\* ------------------------------------------------------------------------
\* Python builtins used by the code
\* ------------------------------------------------------------------------
Min(a, b) == IF a <= b THEN a ELSE b
Max(a, b) == IF a >= b THEN a ELSE b

\* s[:n]
Take(s, n) == SubSeq(s, 1, Min(Len(s), n))

Digits == {"0", "1", "2", "3", "4", "5", "6", "7", "8", "9"}

DigitVal(c) ==
    CASE c = "0" -> 0 [] c = "1" -> 1 [] c = "2" -> 2 [] c = "3" -> 3
      [] c = "4" -> 4 [] c = "5" -> 5 [] c = "6" -> 6 [] c = "7" -> 7
      [] c = "8" -> 8 [] c = "9" -> 9

IsDigits(s) == Len(s) > 0 /\ \A i \in 1..Len(s) : s[i] \in Digits

RECURSIVE DecimalValue(_)
DecimalValue(s) ==
    IF Len(s) = 0 THEN 0
    ELSE 10 * DecimalValue(SubSeq(s, 1, Len(s) - 1)) + DigitVal(s[Len(s)])

\* int(s) succeeds exactly on IsDigits(s) and gives DecimalValue(s); otherwise
\* Python raises ValueError (strings of the model hold no sign, blank or
\* underscore)
IntRaises(s) == ~IsDigits(s)

\* str.lower() on the letters the model's strings use
Lower(c) ==
    CASE c = "A" -> "a" [] c = "B" -> "b" [] c = "C" -> "c" [] c = "D" -> "d"
      [] c = "E" -> "e" [] c = "F" -> "f" [] c = "G" -> "g" [] c = "H" -> "h"
      [] c = "I" -> "i" [] c = "J" -> "j" [] c = "K" -> "k" [] c = "L" -> "l"
      [] c = "M" -> "m" [] c = "N" -> "n" [] c = "O" -> "o" [] c = "P" -> "p"
      [] c = "Q" -> "q" [] c = "R" -> "r" [] c = "S" -> "s" [] c = "T" -> "t"
      [] c = "U" -> "u" [] c = "V" -> "v" [] c = "W" -> "w" [] c = "X" -> "x"
      [] c = "Y" -> "y" [] c = "Z" -> "z" [] OTHER -> c

LowerStr(s) == [i \in 1..Len(s) |-> Lower(s[i])]

\* kw in text
Contains(text, kw) ==
    \E i \in 1..(Len(text) - Len(kw) + 1) : SubSeq(text, i, i + Len(kw) - 1) = kw

\* sep.join(parts)
RECURSIVE Join(_, _)
Join(parts, sep) ==
    IF Len(parts) = 0 THEN <<>>
    ELSE IF Len(parts) = 1 THEN parts[1]
    ELSE parts[1] \o sep \o Join(Tail(parts), sep)

\* s.split(sep) for a one-character separator
RECURSIVE Split(_, _)
Split(s, sep) ==
    IF \A i \in 1..Len(s) : s[i] # sep THEN <<s>>
    ELSE LET k == CHOOSE i \in 1..Len(s) :
                     s[i] = sep /\ \A j \in 1..(i - 1) : s[j] # sep
         IN  <<SubSeq(s, 1, k - 1)>> \o Split(SubSeq(s, k + 1, Len(s)), sep)

\* round(n/d) to the nearest integer, ties to the even neighbour (d > 0)
RoundDiv(n, d) ==
    LET q == n \div d
        r == n % d
    IN  IF 2 * r < d THEN q
        ELSE IF 2 * r > d THEN q + 1
        ELSE IF q % 2 = 0 THEN q ELSE q + 1

\* ------------------------------------------------------------------------
\* YouTubeSemanticSearch: parsers
\* ------------------------------------------------------------------------
\* last index of the run of digits that starts at i
RunEnd(s, i) ==
    CHOOSE j \in i..Len(s) :
        /\ \A k \in i..j : s[k] \in Digits
        /\ (j = Len(s) \/ s[j + 1] \notin Digits)

\* re.search(r'(\d+)X', s): start indices of the runs of digits that X follows
RegexStarts(s, letter) ==
    { i \in 1..Len(s) :
        /\ s[i] \in Digits
        /\ (i = 1 \/ s[i - 1] \notin Digits)
        /\ RunEnd(s, i) < Len(s)
        /\ s[RunEnd(s, i) + 1] = letter }

RegexFound(s, letter) == RegexStarts(s, letter) # {}

\* int(match.group(1)) of the leftmost match
RegexGroup(s, letter) ==
    LET i == CHOOSE a \in RegexStarts(s, letter) :
                 \A b \in RegexStarts(s, letter) : a <= b
    IN  DecimalValue(SubSeq(s, i, RunEnd(s, i)))

\* parse_duration: ISO 8601 "PT#H#M#S" to minutes rounded to one decimal
\* (result in sixtieths of a minute; one decimal is 6 sixtieths). round()
\* breaks the exact ties (seconds 15 and 45, x.25 and x.75 minutes) to the
\* even tenth, as here; at seconds 3, 9, 21, 27, 33, 39, 51 and 57 the float
\* sum is not a tie and round() goes by its error: the model's inputs avoid
\* those seconds
\* a parser that cuts the minutes to one decimal instead of rounding them
parse_duration_truncating(duration_str) ==
    IF Len(duration_str) = 0 THEN 0
    ELSE LET h == IF RegexFound(duration_str, "H")
                  THEN RegexGroup(duration_str, "H") * 60 ELSE 0
             m == IF RegexFound(duration_str, "M")
                  THEN RegexGroup(duration_str, "M") ELSE 0
             s == IF RegexFound(duration_str, "S")
                  THEN RegexGroup(duration_str, "S") ELSE 0
         IN  6 * ((60 * (h + m) + s) \div 6)

parse_duration(duration_str) ==
    IF Len(duration_str) = 0 THEN 0
    ELSE LET h == IF RegexFound(duration_str, "H")
                  THEN RegexGroup(duration_str, "H") * 60 ELSE 0
             m == IF RegexFound(duration_str, "M")
                  THEN RegexGroup(duration_str, "M") ELSE 0
             s == IF RegexFound(duration_str, "S")
                  THEN RegexGroup(duration_str, "S") ELSE 0
             total_sixtieths == 60 * (h + m) + s
         IN  6 * RoundDiv(total_sixtieths, 6)

\* parse_views: int(view_count), 0 when it raises
parse_views(view_count) ==
    IF IntRaises(view_count) THEN 0 ELSE DecimalValue(view_count)

\* the day datetime.now() falls on (days are numbered from an arbitrary origin)
NowDay == 20000

\* a publish timestamp: "" (empty), a string fromisoformat rejects (invalid),
\* or an ISO 8601 instant, held as the day it falls on
NoTimestamp == [kind |-> "empty", day |-> 0]
BadTimestamp == [kind |-> "invalid", day |-> 0]
IsoDay(d) == [kind |-> "iso", day |-> d]

\* a day count that is not raised to 1
get_days_since_published_unclamped(published_at) ==
    IF published_at.kind = "iso"
    THEN NowDay - published_at.day
    ELSE DefaultDays

\* get_days_since_published
get_days_since_published(published_at) ==
    IF published_at.kind = "iso"
    THEN Max(NowDay - published_at.day, 1)
    ELSE DefaultDays

\* semantic_search line 324: ... if video['published_at'] else 365
days_ago_of(published_at) ==
    IF published_at.kind # "empty"
    THEN get_days_since_published(published_at)
    ELSE DefaultDays

\* the fallback's timestamp ("MM:SS", "H:MM:SS") to minutes, in sixtieths;
\* raises is TRUE where int() raises ValueError
fallback_duration(duration_str) ==
    LET parts == Split(duration_str, ":")
    IN  IF Len(parts) = 2
        THEN IF IntRaises(parts[1]) \/ IntRaises(parts[2])
             THEN [raises |-> TRUE, minutes |-> 0]
             ELSE [raises |-> FALSE,
                   minutes |-> 60 * DecimalValue(parts[1]) + DecimalValue(parts[2])]
        ELSE IF Len(parts) = 3
        THEN IF IntRaises(parts[1]) \/ IntRaises(parts[2]) \/ IntRaises(parts[3])
             THEN [raises |-> TRUE, minutes |-> 0]
             ELSE [raises |-> FALSE,
                   minutes |-> 3600 * DecimalValue(parts[1])
                               + 60 * DecimalValue(parts[2])
                               + DecimalValue(parts[3])]
        ELSE [raises |-> FALSE, minutes |-> 0]

\* ------------------------------------------------------------------------
\* YouTubeSemanticSearch: content classifier
\* ------------------------------------------------------------------------
animated_keywords ==
    { <<"a","n","i","m","a","t","e","d">>,
      <<"a","n","i","m","a","t","i","o","n">>,
      <<"v","i","s","u","a","l">>,
      <<"i","l","l","u","s","t","r","a","t","e","d">>,
      <<"e","x","p","l","a","i","n","e","d">>,
      <<"3","d">>,
      <<"g","r","a","p","h","i","c","s">>,
      <<"d","i","a","g","r","a","m">>,
      <<"v","i","s","u","a","l","i","z","a","t","i","o","n">>,
      <<"i","n","f","o","g","r","a","p","h","i","c">>,
      <<"w","h","i","t","e","b","o","a","r","d">>,
      <<"d","r","a","w","i","n","g">>,
      <<"s","k","e","t","c","h">>,
      <<"m","o","t","i","o","n"," ","g","r","a","p","h","i","c","s">> }

coding_keywords ==
    { <<"c","o","d","e">>,
      <<"c","o","d","i","n","g">>,
      <<"p","r","o","g","r","a","m","m","i","n","g">>,
      <<"t","u","t","o","r","i","a","l">>,
      <<"b","u","i","l","d">>,
      <<"p","r","o","j","e","c","t">>,
      <<"i","m","p","l","e","m","e","n","t","a","t","i","o","n">>,
      <<"h","a","n","d","s","-","o","n">>,
      <<"w","a","l","k","t","h","r","o","u","g","h">>,
      <<"s","t","e","p"," ","b","y"," ","s","t","e","p">>,
      <<"f","r","o","m"," ","s","c","r","a","t","c","h">>,
      <<"c","o","m","p","l","e","t","e"," ","g","u","i","d","e">> }

\* f"{title} {description}".lower()
classifier_text(title, description) == LowerStr(title \o <<" ">> \o description)

\* a classifier that reads the title only
is_animated_content_title_only(title, description) ==
    \E keyword \in animated_keywords : Contains(LowerStr(title), keyword)

is_animated_content(title, description) ==
    \E keyword \in animated_keywords :
        Contains(classifier_text(title, description), keyword)

is_coding_content(title, description) ==
    \E keyword \in coding_keywords :
        Contains(classifier_text(title, description), keyword)

quality_channels ==
    { <<"3","b","l","u","e","1","b","r","o","w","n">>,
      <<"k","h","a","n"," ","a","c","a","d","e","m","y">>,
      <<"c","r","a","s","h"," ","c","o","u","r","s","e">>,
      <<"f","r","e","e","c","o","d","e","c","a","m","p">>,
      <<"t","r","a","v","e","r","s","y"," ","m","e","d","i","a">>,
      <<"f","i","r","e","s","h","i","p">>,
      <<"a","c","a","d","e","m","i","n","d">>,
      <<"n","e","t"," ","n","i","n","j","a">>,
      <<"p","r","o","g","r","a","m","m","i","n","g"," ","w","i","t","h"," ","m","o","s","h">>,
      <<"c","o","r","e","y"," ","s","c","h","a","f","e","r">>,
      <<"t","e","c","h"," ","w","i","t","h"," ","t","i","m">>,
      <<"s","e","n","t","d","e","x">>,
      <<"c","o","m","p","u","t","e","r","p","h","i","l","e">>,
      <<"n","u","m","b","e","r","p","h","i","l","e">> }

\* ------------------------------------------------------------------------
\* YouTubeSemanticSearch: sub-scores (millionths)
\* ------------------------------------------------------------------------
\* a view score without its cap
view_score_of_uncapped(views) == views

\* min(video['views'] / 1000000, 1.0)
view_score_of(views) == Min(views, Unit)

\* calculate_engagement_score
calculate_engagement_score(views, likes, published_days_ago) ==
    LET days == IF published_days_ago = 0 THEN 1 ELSE published_days_ago
        \* min(views / days / 10000, 1.0)
        view_score == Min((100 * views) \div days, Unit)
        \* min((likes / views * 1000) / 50, 1.0), 0 when views = 0
        like_score == IF views > 0
                      THEN IF 20 * likes >= views THEN Unit
                           ELSE (20 * likes * Unit) \div views
                      ELSE 0
    IN  (7 * view_score + 3 * like_score) \div 10

\* a recency that decays without a floor
recency_score_of_unfloored(days_ago) ==
    IF days_ago < 730 THEN Unit
    ELSE Unit - ((days_ago - 730) * 40000) \div 73

\* 1.0 if days_ago < 730 else max(0.3, 1 - (days_ago - 730) / 1825)
\* (Unit / 1825 = 40000 / 73)
recency_score_of(days_ago) ==
    IF days_ago < 730 THEN Unit
    ELSE Max(300000, Unit - ((days_ago - 730) * 40000) \div 73)

\* bands tested from the widest to the tightest
duration_score_of_widest_first(duration) ==
    IF Minutes(2) <= duration /\ duration <= Minutes(15) THEN 700000
    ELSE IF Minutes(3) <= duration /\ duration <= Minutes(12) THEN 900000
    ELSE IF Minutes(5) <= duration /\ duration <= Minutes(10) THEN Unit
    ELSE 500000

\* the duration bands, first match wins
duration_score_of(duration) ==
    IF Minutes(5) <= duration /\ duration <= Minutes(10) THEN Unit
    ELSE IF Minutes(3) <= duration /\ duration <= Minutes(12) THEN 900000
    ELSE IF Minutes(2) <= duration /\ duration <= Minutes(15) THEN 700000
    ELSE 500000

\* a bonus granted once per preference met
content_type_bonus_of_additive(prefer_animated, prefer_coding, is_animated, is_coding) ==
    (IF prefer_animated /\ is_animated THEN 150000 ELSE 0)
    + (IF prefer_coding /\ is_coding THEN 150000 ELSE 0)

content_type_bonus_of(prefer_animated, prefer_coding, is_animated, is_coding) ==
    IF prefer_animated /\ is_animated THEN 150000
    ELSE IF prefer_coding /\ is_coding THEN 150000
    ELSE 0

\* a channel test that does not lower-case the name
channel_bonus_of_case_sensitive(channel) ==
    IF \E ch \in quality_channels : Contains(channel, ch)
    THEN 100000 ELSE 0

channel_bonus_of(channel) ==
    IF \E ch \in quality_channels : Contains(LowerStr(channel), ch)
    THEN 100000 ELSE 0

\* the weighted sum, in hundred-millionths
\* a sum that weighs the two bonuses like sub-scores
final_score_of_weighted_bonuses(semantic, view, engagement, recency, duration, content, channel) ==
    40 * semantic + 15 * view + 15 * engagement + 10 * recency + 10 * duration
    + 15 * content + 10 * channel

final_score_of(semantic, view, engagement, recency, duration, content, channel) ==
    40 * semantic + 15 * view + 15 * engagement + 10 * recency + 10 * duration
    + 100 * content + 100 * channel

\* round(x, 4) and round(x, 3) of a score in millionths
Round4(x) == RoundDiv(x, 100)
Round3(x) == RoundDiv(x, 1000)

\* ------------------------------------------------------------------------
\* The embedding provider (semantic_model.encode + util.cos_sim), as a fixed
\* deterministic stub: cosine similarity of the context's and the video
\* text's embeddings, in millionths
\* ------------------------------------------------------------------------
CosSim(semantic_context, video_text) ==
    CASE Contains(video_text, <<"S","o","r","t">>) -> 812300
      [] Contains(video_text, <<"C","o","d","e">>) -> 431200
      [] Contains(video_text, <<"Q","u","i","c","k">>) -> 250600
      [] Contains(video_text, <<"L","i","v","e">>) -> -52400
      [] OTHER -> 104800

\* ------------------------------------------------------------------------
\* The external video index: what the two providers can answer
\* ------------------------------------------------------------------------
\* items of the structured API's videos().list() answer; ok is FALSE for an
\* item that lacks a key the code indexes (snippet.title, thumbnails.high, ...)
ApiItem(ok, id, title, description, channel, published, duration, views, likes) ==
    [ok |-> ok, id |-> id, title |-> title, description |-> description,
     channelTitle |-> channel, publishedAt |-> published, duration |-> duration,
     viewCount |-> views, likeCount |-> likes, commentCount |-> <<"0">>,
     thumbnail |-> <<"h", id>>]

ApiCatalog ==
    { ApiItem(TRUE, "a1", <<"S","o","r","t"," ","3","D">>, <<>>, <<"3","B","l","u","e","1","B","r","o","w","n"," ","O","f","f","i","c","i","a","l">>,
              IsoDay(NowDay - 100), <<"P","T","1","0","M">>, <<"2","1","9","0","0","0","0">>, <<"1","5","0","0","0","0">>),
      ApiItem(TRUE, "a2", <<"C","o","d","e"," ","T","a","l","k">>, <<"a"," ","T","a","l","k">>, <<"R","a","n","d","o","m"," ","C","h","a","n","n","e","l">>,
              IsoDay(NowDay - 3650), <<"P","T","1","2","M","3","0","S">>, <<"2","1","9","0","0","0">>, <<"0">>),
      ApiItem(TRUE, "a3", <<"Q","u","i","c","k"," ","T","i","p">>, <<>>, <<"R","a","n","d","o","m"," ","C","h","a","n","n","e","l">>,
              BadTimestamp, <<"P","T","1","M","3","0","S">>, <<"7","3","0","0">>, <<"7","3">>),
      ApiItem(TRUE, "a4", <<"L","e","c","t","u","r","e">>, <<"W","h","i","t","e","b","o","a","r","d">>, <<"F","i","r","e","s","h","i","p">>,
              IsoDay(NowDay + 5), <<"P","T","1","8","M">>, <<>>, <<"0">>),
      ApiItem(FALSE, "a5", <<>>, <<>>, <<>>, NoTimestamp, <<>>, <<>>, <<>>) }

\* a long answer: LongLen well-formed items with distinct ids, equal in
\* threes in everything the score reads
LongIds ==
    <<"n01", "n02", "n03", "n04", "n05", "n06", "n07", "n08", "n09", "n10",
      "n11", "n12", "n13", "n14", "n15", "n16">>

LongApiItem(i) ==
    CASE i % 3 = 1 -> ApiItem(TRUE, LongIds[i], <<"C","o","d","e"," ","T","a","l","k">>, <<>>, <<"R","a","n","d","o","m"," ","C","h","a","n","n","e","l">>,
                              IsoDay(NowDay - 1095), <<"P","T","8","M">>, <<"2","1","9","0","0","0">>, <<"0">>)
      [] i % 3 = 2 -> ApiItem(TRUE, LongIds[i], <<"S","o","r","t"," ","3","D">>, <<>>, <<"R","a","n","d","o","m"," ","C","h","a","n","n","e","l">>,
                              IsoDay(NowDay - 100), <<"P","T","2","M">>, <<"2","1","9","0","0","0","0">>, <<"1","5","0","0","0","0">>)
      [] OTHER     -> ApiItem(TRUE, LongIds[i], <<"Q","u","i","c","k"," ","T","i","p">>, <<>>, <<"R","a","n","d","o","m"," ","C","h","a","n","n","e","l">>,
                              BadTimestamp, <<"P","T","4","M">>, <<"7","3","0","0">>, <<"7","3">>)

LongApiList == [i \in 1..LongLen |-> LongApiItem(i)]

SeqsUpTo(S, n) == UNION { [1..k -> S] : k \in 0..n }

ApiLists == SeqsUpTo(ApiCatalog, MaxLen) \cup {LongApiList}

\* what the structured provider does with one search: the search call fails,
\* it finds no video id, the details call fails, or the details call answers
ApiWorld ==
    { [kind |-> k, items |-> <<>>] : k \in {"search_fails", "no_ids", "details_fail"} }
    \cup { [kind |-> "items", items |-> l] : l \in ApiLists }

\* videos of the fallback's answer (results['videos']); views is whatever the
\* aggregator put there
FbItem(id, title, description, author, timestamp, views) ==
    [videoId |-> id, url |-> <<"u", id>>, title |-> title,
     description |-> description, thumbnail |-> <<"t", id>>, author |-> author,
     timestamp |-> timestamp, views |-> views]

FbCatalog ==
    { FbItem("f1", <<"S","o","r","t"," ","e","x","p","l","a","i","n","e","d">>, <<>>, <<"K","h","a","n"," ","A","c","a","d","e","m","y">>, <<"5",":","3","0">>, PyNum(73000)),
      FbItem("f2", <<"L","i","v","e">>, <<>>, <<"R","a","n","d","o","m"," ","C","h","a","n","n","e","l">>, <<"0",":","0","0">>, PyNum(0)),
      FbItem("f3", <<"C","o","d","e"," ","T","a","l","k">>, <<>>, <<"R","a","n","d","o","m"," ","C","h","a","n","n","e","l">>, <<"1",":","0","2",":","1","5">>, PyNum(7300)),
      FbItem("f4", <<"Q","u","i","c","k"," ","T","i","p">>, <<>>, <<"R","a","n","d","o","m"," ","C","h","a","n","n","e","l">>, <<"x",":","3","0">>, PyNum(0)),
      FbItem("f5", <<"L","e","c","t","u","r","e">>, <<>>, <<"R","a","n","d","o","m"," ","C","h","a","n","n","e","l">>, <<"1","5",":","0","0">>, PyNone) }

LongFbItem(i) ==
    CASE i % 2 = 1 -> FbItem(LongIds[i], <<"S","o","r","t"," ","e","x","p","l","a","i","n","e","d">>, <<>>, <<"R","a","n","d","o","m"," ","C","h","a","n","n","e","l">>,
                             <<"5",":","3","0">>, PyNum(73000))
      [] OTHER     -> FbItem(LongIds[i], <<"C","o","d","e"," ","T","a","l","k">>, <<>>, <<"R","a","n","d","o","m"," ","C","h","a","n","n","e","l">>,
                             <<"1",":","3","0">>, PyNum(7300))

LongFbList == [i \in 1..LongLen |-> LongFbItem(i)]

FbLists == SeqsUpTo(FbCatalog, MaxLen) \cup {LongFbList}

\* what the fallback does with one search: the import fails, the query
\* raises (yt_search(query) calls the imported module itself, a TypeError
\* unless the installed package makes the module callable), or it answers
FbWorld ==
    { [kind |-> k, videos |-> <<>>] : k \in {"import_fails", "call_raises"} }
    \cup { [kind |-> "results", videos |-> l] : l \in FbLists }

\* the provider that is not asked
NotAsked == [kind |-> "not_asked"]

\* ------------------------------------------------------------------------
\* Candidate Source
\* ------------------------------------------------------------------------
\* __init__: the structured client exists only when the client library was
\* imported, the credential is set and build() succeeded
InitEnvs == {"ready", "no_library", "no_key", "build_fails"}

init_youtube(env) == IF env = "ready" THEN "client" ELSE "None"

\* the candidate search_youtube_api builds from one item (lines 168-181)
api_candidate(item) ==
    [id |-> item.id,
     url |-> <<"https://www.youtube.com/watch?v=", item.id>>,
     title |-> item.title,
     description |-> item.description,
     thumbnail |-> item.thumbnail,
     channel |-> item.channelTitle,
     published_at |-> item.publishedAt,
     duration |-> item.duration,
     duration_minutes |-> parse_duration(item.duration),
     views |-> PyNum(parse_views(item.viewCount)),
     likes |-> parse_views(item.likeCount),
     comments |-> parse_views(item.commentCount)]

\* the for loop of search_youtube_api over the details answer: the candidates
\* built before the first item that raises KeyError, and whether one raised
RECURSIVE api_build(_, _)
api_build(items, videos) ==
    IF Len(items) = 0 THEN [raised |-> FALSE, videos |-> videos]
    ELSE IF ~Head(items).ok THEN [raised |-> TRUE, videos |-> videos]
    ELSE api_build(Tail(items), Append(videos, api_candidate(Head(items))))

\* a loop that returns what it had built when an item raised
api_result_partial(built) == built.videos

\* the value search_youtube_api returns once its loop has ended
api_result(built) == IF built.raised THEN <<>> ELSE built.videos

\* search_youtube_api: the list it returns, the provider calls it issued and
\* how it ended
search_youtube_api(youtube, query, max_results, world) ==
    IF youtube = "None"
    THEN [videos |-> <<>>, calls |-> 0, kind |-> "no_client"]
    ELSE CASE world.kind = "search_fails"
                -> [videos |-> <<>>, calls |-> 1, kind |-> "search_fails"]
           [] world.kind = "no_ids"
                -> [videos |-> <<>>, calls |-> 1, kind |-> "no_ids"]
           [] world.kind = "details_fail"
                -> [videos |-> <<>>, calls |-> 2, kind |-> "details_fail"]
           [] world.kind = "items"
                -> LET built == api_build(world.items, <<>>)
                   IN  [videos |-> api_result(built), calls |-> 2,
                        kind |-> IF built.raised THEN "parse_fails" ELSE "items"]

\* the candidate the fallback builds from one video (lines 219-232)
fb_candidate(video) ==
    [id |-> video.videoId,
     url |-> video.url,
     title |-> video.title,
     description |-> video.description,
     thumbnail |-> video.thumbnail,
     channel |-> video.author,
     published_at |-> NoTimestamp,
     duration |-> video.timestamp,
     duration_minutes |-> fallback_duration(video.timestamp).minutes,
     views |-> video.views,
     likes |-> 0,
     comments |-> 0]

\* the for loop of the fallback over results['videos'][:max_results]
RECURSIVE fb_build(_, _)
fb_build(items, videos) ==
    IF Len(items) = 0 THEN [raised |-> FALSE, videos |-> videos]
    ELSE IF fallback_duration(Head(items).timestamp).raises
    THEN [raised |-> TRUE, videos |-> videos]
    ELSE fb_build(Tail(items), Append(videos, fb_candidate(Head(items))))

\* a fallback that returns what it had built when a video raised
fb_result_partial(built) == built.videos

\* the value the fallback block returns once its loop has ended (lines 234-238)
fb_result(built) == IF built.raised THEN <<>> ELSE built.videos

\* the fallback block of search_with_fallback (lines 203-238)
search_fallback(query, max_results, world) ==
    IF world.kind \in {"import_fails", "call_raises"}
    THEN [videos |-> <<>>, kind |-> world.kind]
    ELSE LET built == fb_build(Take(world.videos, max_results), <<>>)
         IN  [videos |-> fb_result(built),
              kind |-> IF built.raised THEN "parse_fails" ELSE "results"]

\* a fallback that is queried whatever the structured search returned
falls_back_always(api_videos) == TRUE

\* whether search_with_fallback goes on to the fallback (line 199)
falls_back(api_videos) == Len(api_videos) = 0

\* search_with_fallback: the list it returns, with the sources tried in order
\* and what each did
search_with_fallback(youtube, query, max_results, api_world, fb_world) ==
    LET api == search_youtube_api(youtube, query, max_results, api_world)
    IN  IF ~falls_back(api.videos)
        THEN [returned |-> api.videos, trace |-> <<"api">>,
              apiKind |-> api.kind, apiCalls |-> api.calls,
              apiReturned |-> api.videos, fbKind |-> "not_called"]
        ELSE LET fb == search_fallback(query, max_results, fb_world)
             IN  [returned |-> fb.videos, trace |-> <<"api", "fallback">>,
                  apiKind |-> api.kind, apiCalls |-> api.calls,
                  apiReturned |-> api.videos, fbKind |-> fb.kind]

\* ------------------------------------------------------------------------
\* Ranking orchestrator: semantic_search
\* ------------------------------------------------------------------------
\* lines 267-273
build_semantic_context(query, selected_text, transcript_segment) ==
    LET p1 == <<query>>
        p2 == IF Len(selected_text) > 0
              THEN Append(p1, Take(selected_text, SnippetMaxLen)) ELSE p1
        p3 == IF Len(transcript_segment) > 0
              THEN Append(p2, Take(transcript_segment, SnippetMaxLen)) ELSE p2
    IN  Join(p3, <<" ","|"," ">>)

\* lines 280-292
\* a search query sent at its full length
build_search_query_untruncated(query, prefer_animated, prefer_coding, language) ==
    LET p1 == <<query>>
        p2 == IF prefer_animated THEN Append(p1, <<"a","n","i","m","a","t","e","d"," ","e","x","p","l","a","n","a","t","i","o","n"," ","v","i","s","u","a","l">>)
              ELSE IF prefer_coding THEN Append(p1, <<"c","o","d","i","n","g"," ","t","u","t","o","r","i","a","l"," ","i","m","p","l","e","m","e","n","t","a","t","i","o","n">>)
              ELSE p1
        p3 == IF LowerStr(language) = <<"h","i","n","d","i">>
              THEN Append(p2, <<"h","i","n","d","i">>) ELSE Append(p2, <<"e","n","g","l","i","s","h">>)
    IN  Join(p3, <<" ">>)

build_search_query(query, prefer_animated, prefer_coding, language) ==
    LET p1 == <<query>>
        p2 == IF prefer_animated THEN Append(p1, <<"a","n","i","m","a","t","e","d"," ","e","x","p","l","a","n","a","t","i","o","n"," ","v","i","s","u","a","l">>)
              ELSE IF prefer_coding THEN Append(p1, <<"c","o","d","i","n","g"," ","t","u","t","o","r","i","a","l"," ","i","m","p","l","e","m","e","n","t","a","t","i","o","n">>)
              ELSE p1
        p3 == IF LowerStr(language) = <<"h","i","n","d","i">>
              THEN Append(p2, <<"h","i","n","d","i">>) ELSE Append(p2, <<"e","n","g","l","i","s","h">>)
    IN  Take(Join(p3, <<" ">>), SearchQueryMaxLen)

\* a first-pass filter that drops the candidate exactly at the maximum
first_pass_keeps_exclusive(v, max_duration_minutes) ==
    /\ v.duration_minutes < Minutes(max_duration_minutes)
    /\ v.duration_minutes >= Minutes(MinDurationMinutes)

\* line 303: the first-pass duration filter
first_pass_keeps(v, max_duration_minutes) ==
    /\ v.duration_minutes <= Minutes(max_duration_minutes)
    /\ v.duration_minutes >= Minutes(MinDurationMinutes)

first_pass_filter(vs, max_duration_minutes) ==
    SelectSeq(vs, LAMBDA v : first_pass_keeps(v, max_duration_minutes))

\* a retry that never happens
retry_never(vs) == FALSE

\* a retry that happens whatever the first pass kept
retry_always(vs) == TRUE

\* line 305: if not videos
retry_needed(vs) == Len(vs) = 0

\* lines 296 and 307: the arguments of search_with_fallback
search_args(query) == [query |-> query, max_results |-> OverFetch]

\* a relaxed filter that keeps the first pass's 2-minute floor
relaxed_keeps_floor(v) ==
    /\ v.duration_minutes <= Minutes(RelaxedMaxMinutes)
    /\ v.duration_minutes >= Minutes(MinDurationMinutes)

\* a relaxed filter that keeps every candidate
relaxed_keeps_all(v) == TRUE

\* line 308: the relaxed filter
relaxed_keeps(v) == v.duration_minutes <= Minutes(RelaxedMaxMinutes)

relaxed_filter(vs) == SelectSeq(vs, relaxed_keeps)

\* lines 317-396: one pass of the scoring loop; raises where the code raises
\* TypeError on a candidate whose views is not a number
score_raises(video) == ~IsNum(video.views)

\* a scored record that carries the lower-cased title
merge_scored_retitled(video, added) ==
    added @@ [video EXCEPT !.title = LowerStr(video.title)]

\* lines 381-396, {**video, ...}: the candidate's fields next to the added
\* ones, which would win over a candidate's field of the same name
merge_scored(video, added) == added @@ video

score_video(video, semantic_context, prefer_animated, prefer_coding) ==
    LET video_text == video.title \o <<" ">> \o Take(video.description, DescriptionMaxLen)
        semantic_score == CosSim(semantic_context, video_text)
        days_ago == days_ago_of(video.published_at)
        view_score == view_score_of(video.views.val)
        engagement_score ==
            calculate_engagement_score(video.views.val, video.likes, days_ago)
        recency_score == recency_score_of(days_ago)
        duration_score == duration_score_of(video.duration_minutes)
        is_animated == is_animated_content(video.title, video.description)
        is_coding == is_coding_content(video.title, video.description)
        content_type_bonus ==
            content_type_bonus_of(prefer_animated, prefer_coding, is_animated, is_coding)
        channel_bonus == channel_bonus_of(video.channel)
        final_score ==
            final_score_of(semantic_score, view_score, engagement_score,
                           recency_score, duration_score, content_type_bonus,
                           channel_bonus)
    IN  merge_scored(video,
        [semantic_score |-> Round4(semantic_score),
         final_score |-> RoundDiv(final_score, 10000),
         is_animated |-> is_animated,
         is_coding |-> is_coding,
         scores |-> [semantic |-> Round3(semantic_score),
                     views |-> Round3(view_score),
                     engagement |-> Round3(engagement_score),
                     recency |-> Round3(recency_score),
                     duration |-> Round3(duration_score),
                     content_type_bonus |-> Round3(content_type_bonus),
                     channel_bonus |-> Round3(channel_bonus)]])

\* the scoring loop: the scored candidates built before the first candidate
\* that raises, and the number of candidates embedded
RECURSIVE score_loop(_, _, _, _, _)
score_loop(vs, scored, semantic_context, prefer_animated, prefer_coding) ==
    IF Len(vs) = 0
    THEN [raised |-> FALSE, scored |-> scored, embedded |-> Len(scored)]
    ELSE IF score_raises(Head(vs))
    THEN [raised |-> TRUE, scored |-> scored, embedded |-> Len(scored) + 1]
    ELSE score_loop(Tail(vs),
                    Append(scored, score_video(Head(vs), semantic_context,
                                               prefer_animated, prefer_coding)),
                    semantic_context, prefer_animated, prefer_coding)

\* a sort that puts the later of two equal scores first
goes_before_unstable(x, y) == x.final_score > y.final_score

\* list.sort(key=final_score, reverse=True): stable, descending
goes_before(x, y) == x.final_score >= y.final_score

RECURSIVE insert_sorted(_, _)
insert_sorted(sorted, x) ==
    IF Len(sorted) = 0 THEN <<x>>
    ELSE IF goes_before(Head(sorted), x)
    THEN <<Head(sorted)>> \o insert_sorted(Tail(sorted), x)
    ELSE <<x>> \o sorted

RECURSIVE sort_from(_, _)
sort_from(sorted, rest) ==
    IF Len(rest) = 0 THEN sorted
    ELSE sort_from(insert_sorted(sorted, Head(rest)), Tail(rest))

sort_by_final_score(scored) == sort_from(<<>>, scored)

\* a slice one item too long
top_of_eleven(sorted) == Take(sorted, TopN + 1)

\* scored_videos[:10]
top_of(sorted) == Take(sorted, TopN)

\* ------------------------------------------------------------------------
\* Requests of the /search-videos endpoint (VideoSearchRequest)
\* ------------------------------------------------------------------------
SearchRequest(query, selected_text, transcript_segment, prefer_animated, prefer_coding, max_duration_minutes, language) ==
    [query |-> query, selected_text |-> selected_text,
     transcript_segment |-> transcript_segment,
     prefer_animated |-> prefer_animated, prefer_coding |-> prefer_coding,
     max_duration_minutes |-> max_duration_minutes, language |-> language]

Requests ==
    { SearchRequest(<<"s","o","r","t">>, <<>>, <<>>, TRUE, FALSE, PyNum(10), <<"e","n","g","l","i","s","h">>),
      SearchRequest(<<"s","o","r","t">>, <<"h","e","a","p">>, <<>>, FALSE, TRUE, PyNum(20), <<"H","i","n","d","i">>),
      SearchRequest(<<"t","r","e","e","s">>, <<>>, <<"a","v","l">>, TRUE, TRUE, PyNum(1), <<"e","n","g","l","i","s","h">>),
      SearchRequest(<<"s","o","r","t">>, <<>>, <<>>, FALSE, FALSE, PyNone, <<"f","r","e","n","c","h">>) }

NoRequest == SearchRequest(<<>>, <<>>, <<>>, FALSE, FALSE, PyNone, <<>>)

\* ------------------------------------------------------------------------
\* State
\* ------------------------------------------------------------------------
VARIABLES
    initEnv,           \* how the construction of YouTubeSemanticSearch went
    youtube,           \* self.youtube: "client" or "None"
    pc,                \* where the request being served stands
    request,           \* the request being served
    semantic_context,  \* semantic_search's local of that name
    search_query,      \* semantic_search's local of that name
    videos,            \* semantic_search's local of that name
    scored_videos,     \* semantic_search's local of that name
    top_videos,        \* the list semantic_search returns
    response,          \* the endpoint's response
    searchCalls,       \* history: the arguments of each search_with_fallback call
    lastSearch,        \* history: what the latest search_with_fallback call did
    filterPass,        \* history: the filter passes run, "none", "first", "relaxed"
    firstKept,         \* history: the candidates the first pass kept, -1 before it
    embedCalls,        \* history: the number of model.encode calls
    \* the process: worker threads and the models they share
    weights,           \* whether the embedding weights can be loaded
    threads,           \* per worker thread: the endpoint it serves, where it stands, its response
    embed_model,       \* main._embed_model: 0 is None, n the instance of the n-th load
    sys_modules,       \* whether youtube_semantic_search is in sys.modules
    import_lock,       \* the import lock of youtube_semantic_search: 0 or its holder
    whisper_model,     \* model_loader._model: "None" or "loaded"
    whisper_lock,      \* model_loader._lock: 0 or its holder
    embedLoads,        \* history: loads done by get_embed_model
    semanticLoads,     \* history: loads of semantic_model that succeeded
    loadAttempts,      \* history: executions of line 26, failed ones included
    started,           \* history: requests the workers have taken
    \* one application of a pure function
    fpc,               \* the functions applied so far
    arg,               \* the input drawn
    out                \* the values computed

Threads == 1..NumThreads

rankVars == <<initEnv, youtube, pc, request, semantic_context, search_query,
              videos, scored_videos, top_videos, response, searchCalls,
              lastSearch, filterPass, firstKept, embedCalls>>

procVars == <<weights, threads, embed_model, sys_modules, import_lock,
              whisper_model, whisper_lock, embedLoads, semanticLoads,
              loadAttempts, started>>

fnVars == <<fpc, arg, out>>

vars == <<rankVars, procVars, fnVars>>

NoSearch ==
    [returned |-> <<>>, trace |-> <<>>, apiKind |-> "none", apiCalls |-> 0,
     apiReturned |-> <<>>, fbKind |-> "none"]

NoResponse == [success |-> FALSE, pending |-> TRUE]

\* a worker thread that serves no request
IdleThread == [op |-> "none", pc |-> "idle", resp |-> "none"]

\* the process before any request: nothing imported, nothing loaded
ProcAtRest ==
    /\ threads = [t \in Threads |-> IdleThread]
    /\ embed_model = 0
    /\ sys_modules = "absent"
    /\ import_lock = 0
    /\ whisper_model = "None"
    /\ whisper_lock = 0
    /\ embedLoads = 0
    /\ semanticLoads = 0
    /\ loadAttempts = 0
    /\ started = 0

NoArg == [kind |-> "none"]

NoOut == [kind |-> "none"]

\* no pure function is being applied
FnAtRest ==
    /\ fpc = {}
    /\ arg = NoArg
    /\ out = NoOut

\* the ranking module once imported and constructed, no request taken yet
RankInit ==
    /\ initEnv \in InitEnvs
    /\ youtube = init_youtube(initEnv)
    /\ pc = "idle"
    /\ request = NoRequest
    /\ semantic_context = <<>>
    /\ search_query = <<>>
    /\ videos = <<>>
    /\ scored_videos = <<>>
    /\ top_videos = <<>>
    /\ response = NoResponse
    /\ searchCalls = <<>>
    /\ lastSearch = NoSearch
    /\ filterPass = "none"
    /\ firstKept = -1
    /\ embedCalls = 0

Init ==
    /\ RankInit
    /\ weights = "present"
    /\ ProcAtRest
    /\ FnAtRest

\* the provider answers one search_with_fallback call can meet
ApiWorldFor(yt) == IF yt = "None" THEN {NotAsked} ELSE ApiWorld

FbWorldFor(yt, query, max_results, api_world) ==
    IF falls_back(search_youtube_api(yt, query, max_results, api_world).videos)
    THEN FbWorld ELSE {NotAsked}

\* the Optional[str] fields of VideoSearchRequest a client sent as null
NullChoices == {{}, {"selected_text"}, {"transcript_segment"}}

\* search_youtube_videos is entered and semantic_search runs up to the first
\* search (main.py 75-93, lines 266-292): the context is built and embedded,
\* the search query is built; len() of a null field raises TypeError at
\* main.py 80, before semantic_search is called
Receive ==
    /\ pc = "idle"
    /\ \E r \in Requests, nulls \in NullChoices :
        /\ request' = r
        /\ IF nulls # {}
           THEN /\ pc' = "raised"
                /\ UNCHANGED <<semantic_context, search_query, embedCalls>>
           ELSE /\ semantic_context' =
                       build_semantic_context(r.query, r.selected_text,
                                              r.transcript_segment)
                /\ search_query' =
                       build_search_query(r.query, r.prefer_animated,
                                          r.prefer_coding, r.language)
                /\ embedCalls' = embedCalls + 1
                /\ pc' = "search"
    /\ UNCHANGED <<initEnv, youtube, videos, scored_videos, top_videos, response,
                   searchCalls, lastSearch, filterPass, firstKept>>
    /\ UNCHANGED <<procVars, fnVars>>

\* lines 296-300: the first search; an empty answer ends the call
FirstSearch ==
    /\ pc = "search"
    /\ \E aw \in ApiWorldFor(youtube) :
       \E fw \in FbWorldFor(youtube, search_query, OverFetch, aw) :
         LET a == search_args(search_query)
             r == search_with_fallback(youtube, a.query, a.max_results, aw, fw)
         IN  /\ lastSearch' = r
             /\ videos' = r.returned
             /\ IF Len(r.returned) = 0
                THEN /\ top_videos' = <<>>
                     /\ pc' = "return"
                ELSE /\ top_videos' = top_videos
                     /\ pc' = "filter"
    /\ searchCalls' = Append(searchCalls, search_args(search_query))
    /\ UNCHANGED <<initEnv, youtube, request, semantic_context, search_query,
                   scored_videos, response, filterPass, firstKept, embedCalls>>
    /\ UNCHANGED <<procVars, fnVars>>

\* line 303: the first-pass filter; comparing with None raises TypeError
FirstFilter ==
    /\ pc = "filter"
    /\ IF ~IsNum(request.max_duration_minutes)
       THEN /\ pc' = "raised"
            /\ UNCHANGED <<videos, filterPass, firstKept>>
       ELSE /\ videos' = first_pass_filter(videos, request.max_duration_minutes.val)
            /\ filterPass' = "first"
            /\ firstKept' = Len(videos')
            /\ pc' = IF retry_needed(videos') THEN "relax" ELSE "score"
    /\ UNCHANGED <<initEnv, youtube, request, semantic_context, search_query,
                   scored_videos, top_videos, response, searchCalls, lastSearch,
                   embedCalls>>
    /\ UNCHANGED <<procVars, fnVars>>

\* lines 305-306: nothing survived, the constraint is relaxed (the history of
\* the first search ends here)
Relax ==
    /\ pc = "relax"
    /\ lastSearch' = NoSearch
    /\ pc' = "retry"
    /\ UNCHANGED <<initEnv, youtube, request, semantic_context, search_query,
                   videos, scored_videos, top_videos, response, searchCalls,
                   filterPass, firstKept, embedCalls>>
    /\ UNCHANGED <<procVars, fnVars>>

\* lines 307-308: the second search and the relaxed filter
RetrySearch ==
    /\ pc = "retry"
    /\ \E aw \in ApiWorldFor(youtube) :
       \E fw \in FbWorldFor(youtube, search_query, OverFetch, aw) :
         LET a == search_args(search_query)
             r == search_with_fallback(youtube, a.query, a.max_results, aw, fw)
         IN  /\ lastSearch' = r
             /\ videos' = relaxed_filter(r.returned)
    /\ searchCalls' = Append(searchCalls, search_args(search_query))
    /\ filterPass' = "relaxed"
    /\ pc' = "score"
    /\ UNCHANGED <<initEnv, youtube, request, semantic_context, search_query,
                   scored_videos, top_videos, response, firstKept, embedCalls>>
    /\ UNCHANGED <<procVars, fnVars>>

\* a scoring loop that embeds the semantic context again
ScoreReembedding ==
    /\ pc = "score"
    /\ LET r == score_loop(videos, <<>>, semantic_context, request.prefer_animated,
                           request.prefer_coding)
       IN  /\ embedCalls' = embedCalls + r.embedded + 1
           /\ scored_videos' = r.scored
           /\ pc' = IF r.raised THEN "raised" ELSE "sort"
    /\ UNCHANGED <<initEnv, youtube, request, semantic_context, search_query,
                   videos, top_videos, response, searchCalls, lastSearch,
                   filterPass, firstKept>>
    /\ UNCHANGED <<procVars, fnVars>>

\* lines 313-396: every surviving candidate is embedded and scored; a
\* candidate the arithmetic rejects raises out of semantic_search
Score ==
    /\ pc = "score"
    /\ LET r == score_loop(videos, <<>>, semantic_context, request.prefer_animated,
                           request.prefer_coding)
       IN  /\ embedCalls' = embedCalls + r.embedded
           /\ scored_videos' = r.scored
           /\ pc' = IF r.raised THEN "raised" ELSE "sort"
    /\ UNCHANGED <<initEnv, youtube, request, semantic_context, search_query,
                   videos, top_videos, response, searchCalls, lastSearch,
                   filterPass, firstKept>>
    /\ UNCHANGED <<procVars, fnVars>>

\* lines 399-411: sort, keep the top results, return them
SortAndReturn ==
    /\ pc = "sort"
    /\ scored_videos' = sort_by_final_score(scored_videos)
    /\ top_videos' = top_of(scored_videos')
    /\ pc' = "return"
    /\ UNCHANGED <<initEnv, youtube, request, semantic_context, search_query,
                   videos, response, searchCalls, lastSearch, filterPass,
                   firstKept, embedCalls>>
    /\ UNCHANGED <<procVars, fnVars>>

\* an endpoint that answers an empty ranking with a failure
RespondNotFound ==
    /\ pc = "return"
    /\ response' = IF Len(top_videos) = 0
                   THEN [success |-> FALSE, error |-> "no videos", videos |-> <<>>]
                   ELSE [success |-> TRUE, count |-> Len(top_videos),
                         videos |-> top_videos]
    /\ pc' = "done"
    /\ UNCHANGED <<initEnv, youtube, request, semantic_context, search_query,
                   videos, scored_videos, top_videos, searchCalls, lastSearch,
                   filterPass, firstKept, embedCalls>>
    /\ UNCHANGED <<procVars, fnVars>>

\* main.py 95-99: the success response
Respond ==
    /\ pc = "return"
    /\ response' = [success |-> TRUE, count |-> Len(top_videos),
                    videos |-> top_videos]
    /\ pc' = "done"
    /\ UNCHANGED <<initEnv, youtube, request, semantic_context, search_query,
                   videos, scored_videos, top_videos, searchCalls, lastSearch,
                   filterPass, firstKept, embedCalls>>
    /\ UNCHANGED <<procVars, fnVars>>

\* a handler that hands back what had been scored when the exception came
RespondErrorPartial ==
    /\ pc = "raised"
    /\ response' = [success |-> FALSE, error |-> "TypeError",
                    videos |-> scored_videos]
    /\ pc' = "done"
    /\ UNCHANGED <<initEnv, youtube, request, semantic_context, search_query,
                   videos, scored_videos, top_videos, searchCalls, lastSearch,
                   filterPass, firstKept, embedCalls>>
    /\ UNCHANGED <<procVars, fnVars>>

\* main.py 100-108: the failure response
RespondError ==
    /\ pc = "raised"
    /\ response' = [success |-> FALSE, error |-> "TypeError", videos |-> <<>>]
    /\ pc' = "done"
    /\ UNCHANGED <<initEnv, youtube, request, semantic_context, search_query,
                   videos, scored_videos, top_videos, searchCalls, lastSearch,
                   filterPass, firstKept, embedCalls>>
    /\ UNCHANGED <<procVars, fnVars>>

Next ==
    \/ Receive
    \/ FirstSearch
    \/ FirstFilter
    \/ Relax
    \/ RetrySearch
    \/ Score
    \/ SortAndReturn
    \/ Respond
    \/ RespondError

Spec == Init /\ [][Next]_vars

\* ------------------------------------------------------------------------
\* The process: overlapping requests on the worker threads (the endpoints
\* are plain def functions, which the server runs on a thread pool) and the
\* models they share
\* ------------------------------------------------------------------------
Endpoints ==
    {"embeddings", "search_videos", "extract_video", "extract_youtube",
     "clear_whisper_model"}

\* the first step of each endpoint
Entry(op) ==
    CASE op = "embeddings" -> "get_embed_model"
      [] op = "search_videos" -> "import"
      [] op \in {"extract_video", "extract_youtube"} -> "get_whisper_model"
      [] op = "clear_whisper_model" -> "clear"

At(t, where) == threads[t].pc = where

Goto(t, where) == [threads EXCEPT ![t].pc = where]

Answer(t, resp) == [threads EXCEPT ![t].pc = "done", ![t].resp = resp]

\* a with statement that does not wait for the lock
lock_ignored(lock) == TRUE

\* with _lock: the lock is taken when no thread holds it
lock_free(lock) == lock = 0

ProcInit ==
    /\ RankInit
    /\ initEnv = "ready"
    /\ weights \in {"present", "missing"}
    /\ ProcAtRest
    /\ FnAtRest

\* a worker takes a request for one of the endpoints ops
StartOn(t, ops) ==
    /\ threads[t].pc \in {"idle", "done"}
    /\ started < MaxRequests
    /\ \E op \in ops :
           threads' = [threads EXCEPT ![t] = [op |-> op, pc |-> Entry(op),
                                              resp |-> "none"]]
    /\ started' = started + 1
    /\ UNCHANGED <<weights, embed_model, sys_modules, import_lock, whisper_model,
                   whisper_lock, embedLoads, semanticLoads, loadAttempts>>
    /\ UNCHANGED <<rankVars, fnVars>>

\* a worker takes a request
Start(t) == StartOn(t, Endpoints)

\* the endpoints that use the Whisper model and its lock
WhisperEndpoints == {"extract_video", "extract_youtube", "clear_whisper_model"}

\* a worker takes a request that uses the Whisper model
StartExtraction(t) == StartOn(t, WhisperEndpoints)

\* main.py 41: if _embed_model is None
EmbedCheck(t) ==
    /\ At(t, "get_embed_model")
    /\ threads' = Goto(t, IF embed_model = 0 THEN "load_embed" ELSE "encode")
    /\ UNCHANGED <<weights, embed_model, sys_modules, import_lock, whisper_model,
                   whisper_lock, embedLoads, semanticLoads, loadAttempts, started>>
    /\ UNCHANGED <<rankVars, fnVars>>

\* main.py 42-44: the model is constructed and assigned to the global; a
\* failed construction is answered by lines 56-57
EmbedLoad(t) ==
    /\ At(t, "load_embed")
    /\ IF weights = "present"
       THEN /\ embedLoads' = embedLoads + 1
            /\ embed_model' = embedLoads + 1
            /\ threads' = Goto(t, "encode")
       ELSE /\ threads' = Answer(t, "load_error")
            /\ UNCHANGED <<embedLoads, embed_model>>
    /\ UNCHANGED <<weights, sys_modules, import_lock, whisper_model,
                   whisper_lock, semanticLoads, loadAttempts, started>>
    /\ UNCHANGED <<rankVars, fnVars>>

\* main.py 45, 54-55: the text is encoded and answered
EmbedEncode(t) ==
    /\ At(t, "encode")
    /\ threads' = Answer(t, "ok")
    /\ UNCHANGED <<weights, embed_model, sys_modules, import_lock, whisper_model,
                   whisper_lock, embedLoads, semanticLoads, loadAttempts, started>>
    /\ UNCHANGED <<rankVars, fnVars>>

\* main.py 76: from youtube_semantic_search import ...; a module in
\* sys.modules is reused, otherwise the thread that gets the module's import
\* lock executes the module
SearchImport(t) ==
    /\ At(t, "import")
    /\ IF sys_modules = "loaded"
       THEN /\ threads' = Goto(t, "rank")
            /\ UNCHANGED import_lock
       ELSE /\ import_lock = 0
            /\ import_lock' = t
            /\ threads' = Goto(t, "exec_module")
    /\ UNCHANGED <<weights, embed_model, sys_modules, whisper_model,
                   whisper_lock, embedLoads, semanticLoads, loadAttempts, started>>
    /\ UNCHANGED <<rankVars, fnVars>>

\* youtube_semantic_search.py 24-27 and 414-415: the module body loads
\* semantic_model; when the load raises, the import raises, the module is
\* not left in sys.modules and main.py 100-108 answers the request
ExecModule(t) ==
    /\ At(t, "exec_module")
    /\ loadAttempts' = loadAttempts + 1
    /\ import_lock' = 0
    /\ IF weights = "present"
       THEN /\ semanticLoads' = semanticLoads + 1
            /\ sys_modules' = "loaded"
            /\ threads' = Goto(t, "rank")
       ELSE /\ threads' = Answer(t, "load_error")
            /\ UNCHANGED <<semanticLoads, sys_modules>>
    /\ UNCHANGED <<weights, embed_model, whisper_model, whisper_lock,
                   embedLoads, started>>
    /\ UNCHANGED <<rankVars, fnVars>>

\* main.py 77-108: the request is ranked and answered, with a success or
\* with the failure response
Rank(t) ==
    /\ At(t, "rank")
    /\ \E resp \in {"ok", "error"} : threads' = Answer(t, resp)
    /\ UNCHANGED <<weights, embed_model, sys_modules, import_lock, whisper_model,
                   whisper_lock, embedLoads, semanticLoads, loadAttempts, started>>
    /\ UNCHANGED <<rankVars, fnVars>>

\* model_loader.py 9-10: get_whisper_model takes the lock and tests _model
GetWhisperAcquire(t) ==
    /\ At(t, "get_whisper_model")
    /\ lock_free(whisper_lock)
    /\ whisper_lock' = t
    /\ threads' = Goto(t, IF whisper_model = "None" THEN "load_whisper"
                          ELSE "got_whisper")
    /\ UNCHANGED <<weights, embed_model, sys_modules, import_lock, whisper_model,
                   embedLoads, semanticLoads, loadAttempts, started>>
    /\ UNCHANGED <<rankVars, fnVars>>

\* a load whose failure leaves the lock with the thread
LoadWhisperLeaking(t) ==
    /\ At(t, "load_whisper")
    /\ \/ /\ whisper_model' = "loaded"
          /\ threads' = Goto(t, "got_whisper")
          /\ UNCHANGED whisper_lock
       \/ /\ threads' = Answer(t, "whisper_load_error")
          /\ UNCHANGED <<whisper_lock, whisper_model>>
    /\ UNCHANGED <<weights, embed_model, sys_modules, import_lock, embedLoads,
                   semanticLoads, loadAttempts, started>>
    /\ UNCHANGED <<rankVars, fnVars>>

\* model_loader.py 11-15: the model is loaded inside the with block; a load
\* that raises leaves the block (the lock is released) and the extractor
\* answers with an error
LoadWhisper(t) ==
    /\ At(t, "load_whisper")
    /\ \/ /\ whisper_model' = "loaded"
          /\ threads' = Goto(t, "got_whisper")
          /\ UNCHANGED whisper_lock
       \/ /\ whisper_lock' = 0
          /\ threads' = Answer(t, "whisper_load_error")
          /\ UNCHANGED whisper_model
    /\ UNCHANGED <<weights, embed_model, sys_modules, import_lock, embedLoads,
                   semanticLoads, loadAttempts, started>>
    /\ UNCHANGED <<rankVars, fnVars>>

\* model_loader.py 16-19: the with block ends, the model and the lock are
\* handed to the extractor
GetWhisperRelease(t) ==
    /\ At(t, "got_whisper")
    /\ whisper_lock' = 0
    /\ threads' = Goto(t, "have_whisper")
    /\ UNCHANGED <<weights, embed_model, sys_modules, import_lock, whisper_model,
                   embedLoads, semanticLoads, loadAttempts, started>>
    /\ UNCHANGED <<rankVars, fnVars>>

\* video_extractor.py 139-141, youtube_extractor.py 168-181: the audio file
\* is missing or empty, the extractor raises before transcribing
AudioMissing(t) ==
    /\ At(t, "have_whisper")
    /\ threads' = Answer(t, "error")
    /\ UNCHANGED <<weights, embed_model, sys_modules, import_lock, whisper_model,
                   whisper_lock, embedLoads, semanticLoads, loadAttempts, started>>
    /\ UNCHANGED <<rankVars, fnVars>>

\* video_extractor.py 139-143, youtube_extractor.py 168-181: the audio file
\* is there, the extractor goes on to the with statement
AudioFound(t) ==
    /\ At(t, "have_whisper")
    /\ threads' = Goto(t, "with_whisper_lock")
    /\ UNCHANGED <<weights, embed_model, sys_modules, import_lock, whisper_model,
                   whisper_lock, embedLoads, semanticLoads, loadAttempts, started>>
    /\ UNCHANGED <<rankVars, fnVars>>

\* video_extractor.py 147, youtube_extractor.py 184: with whisper_lock
TranscribeAcquire(t) ==
    /\ At(t, "with_whisper_lock")
    /\ lock_free(whisper_lock)
    /\ whisper_lock' = t
    /\ threads' = Goto(t, "transcribe")
    /\ UNCHANGED <<weights, embed_model, sys_modules, import_lock, whisper_model,
                   embedLoads, semanticLoads, loadAttempts, started>>
    /\ UNCHANGED <<rankVars, fnVars>>

\* video_extractor.py 148, youtube_extractor.py 185: transcribe returns or
\* raises, the with block ends
Transcribe(t) ==
    /\ At(t, "transcribe")
    /\ whisper_lock' = 0
    /\ \E resp \in {"ok", "transcribe_error"} : threads' = Answer(t, resp)
    /\ UNCHANGED <<weights, embed_model, sys_modules, import_lock, whisper_model,
                   embedLoads, semanticLoads, loadAttempts, started>>
    /\ UNCHANGED <<rankVars, fnVars>>

\* model_loader.py 22: clear_whisper_model takes the lock
ClearAcquire(t) ==
    /\ At(t, "clear")
    /\ lock_free(whisper_lock)
    /\ whisper_lock' = t
    /\ threads' = Goto(t, "clearing")
    /\ UNCHANGED <<weights, embed_model, sys_modules, import_lock, whisper_model,
                   embedLoads, semanticLoads, loadAttempts, started>>
    /\ UNCHANGED <<rankVars, fnVars>>

\* model_loader.py 23-29: the model is dropped, the with block ends, with
\* the return or with an exception of the clean-up after line 24
ClearWhisper(t) ==
    /\ At(t, "clearing")
    /\ whisper_model' = "None"
    /\ whisper_lock' = 0
    /\ \E resp \in {"ok", "clear_error"} : threads' = Answer(t, resp)
    /\ UNCHANGED <<weights, embed_model, sys_modules, import_lock, embedLoads,
                   semanticLoads, loadAttempts, started>>
    /\ UNCHANGED <<rankVars, fnVars>>

ProcNext ==
    \E t \in Threads :
        \/ Start(t)
        \/ EmbedCheck(t)
        \/ EmbedLoad(t)
        \/ EmbedEncode(t)
        \/ SearchImport(t)
        \/ ExecModule(t)
        \/ Rank(t)
        \/ GetWhisperAcquire(t)
        \/ LoadWhisper(t)
        \/ GetWhisperRelease(t)
        \/ AudioMissing(t)
        \/ AudioFound(t)
        \/ TranscribeAcquire(t)
        \/ Transcribe(t)
        \/ ClearAcquire(t)
        \/ ClearWhisper(t)

SpecProcess == ProcInit /\ [][ProcNext]_vars

\* process start for the requests that use the Whisper model, which read
\* nothing of the embedding models
WhisperInit ==
    /\ RankInit
    /\ initEnv = "ready"
    /\ weights = "present"
    /\ ProcAtRest
    /\ FnAtRest

\* the steps of the requests that use the Whisper model
WhisperNext ==
    \E t \in Threads :
        \/ StartExtraction(t)
        \/ GetWhisperAcquire(t)
        \/ LoadWhisper(t)
        \/ GetWhisperRelease(t)
        \/ AudioMissing(t)
        \/ AudioFound(t)
        \/ TranscribeAcquire(t)
        \/ Transcribe(t)
        \/ ClearAcquire(t)
        \/ ClearWhisper(t)

\* a thread takes the lock at the with statement it has reached
AcquireLock(t) ==
    GetWhisperAcquire(t) \/ TranscribeAcquire(t) \/ ClearAcquire(t)

\* a thread runs the step of the with block it is in
RunBlock(t) ==
    LoadWhisper(t) \/ GetWhisperRelease(t) \/ Transcribe(t) \/ ClearWhisper(t)

\* loads, transcriptions and clean-ups that terminate in a thread that is
\* scheduled, and a lock that a waiting thread gets when it is free again
\* and again
WhisperFairness ==
    \A t \in Threads : WF_vars(RunBlock(t)) /\ SF_vars(AcquireLock(t))

\* the worker threads on requests of the Whisper endpoints
SpecWhisper == WhisperInit /\ [][WhisperNext]_vars /\ WhisperFairness

\* ------------------------------------------------------------------------
\* The parsers and sub-scores applied to inputs of their own
\* ------------------------------------------------------------------------
DigitChar(d) ==
    CASE d = 0 -> "0" [] d = 1 -> "1" [] d = 2 -> "2" [] d = 3 -> "3"
      [] d = 4 -> "4" [] d = 5 -> "5" [] d = 6 -> "6" [] d = 7 -> "7"
      [] d = 8 -> "8" [] d = 9 -> "9"

\* str(n) of a natural number
RECURSIVE Str(_)
Str(n) == IF n < 10 THEN <<DigitChar(n)>> ELSE Str(n \div 10) \o <<DigitChar(n % 10)>>

\* f"{n:02d}"
Pad2(n) == IF n < 10 THEN <<"0">> \o Str(n) ELSE Str(n)

\* the provider's ISO 8601 duration with every component written
IsoFull(h, m, s) ==
    <<"P", "T">> \o Str(h) \o <<"H">> \o Str(m) \o <<"M">> \o Str(s) \o <<"S">>

\* the provider's ISO 8601 duration with the zero components left out
IsoShort(h, m, s) ==
    <<"P", "T">> \o (IF h > 0 THEN Str(h) \o <<"H">> ELSE <<>>)
                \o (IF m > 0 THEN Str(m) \o <<"M">> ELSE <<>>)
                \o (IF s > 0 THEN Str(s) \o <<"S">> ELSE <<>>)

\* the fallback's timestamp: h:mm:ss, or m:ss when h = 0
ColonForm(h, m, s) ==
    IF h = 0 THEN Str(m) \o <<":">> \o Pad2(s)
    ELSE Str(h) \o <<":">> \o Pad2(m) \o <<":">> \o Pad2(s)

MinuteSamples == {0, 2, 5, 10, 59}

SecondSamples == {0, 15, 20, 30, 45, 59}

\* a duration of h hours, m minutes and s seconds in both providers' formats
HmsArgs ==
    { [kind |-> "hms", form |-> f, h |-> h, m |-> m, s |-> s,
       iso |-> IF f = "full" THEN IsoFull(h, m, s) ELSE IsoShort(h, m, s),
       colon |-> ColonForm(h, m, s)] :
        f \in {"full", "short"}, h \in 0..MaxHours, m \in MinuteSamples,
        s \in SecondSamples }

\* strings that are no duration: empty, too few or too many parts, a part that
\* is no number
RawArgs ==
    { [kind |-> "raw", iso |-> <<>>, colon |-> c] :
        c \in { <<>>, <<"5", "3", "0">>, <<"1", ":", "2", ":", "3", ":", "4">>,
                <<"x", ":", "3", "0">>, <<"5", ":">>, <<"1", ":", "x", "x", ":", "0", "0">> } }

PublishSamples ==
    { NoTimestamp, BadTimestamp, IsoDay(NowDay + 5), IsoDay(NowDay),
      IsoDay(NowDay - 1), IsoDay(NowDay - 100), IsoDay(NowDay - 730),
      IsoDay(NowDay - 3650) }

ViewSamples == {0, 7300, 219000, 2190000, 20000000}

LikeSamples == {0, 73, 107}

PublishArgs ==
    { [kind |-> "publish", published_at |-> p, views |-> v, likes |-> l] :
        p \in PublishSamples, v \in ViewSamples, l \in LikeSamples }

DurationArgs ==
    { [kind |-> "duration", duration |-> d] : d \in 0..Minutes(MaxDuration) }

\* answers of the fallback provider
FallbackArgs ==
    { [kind |-> "fallback", world |-> w] : w \in { x \in FbWorld : x.kind = "results" } }

\* the days since publication of two candidates, the second one older
DaysArgs ==
    { [kind |-> "days", days_ago |-> <<d, d + step>>] :
        d \in 1..MaxDays, step \in {1, 365} }

\* titles and descriptions of candidates
TextSamples ==
    { <<<<"U","n","a","n","i","m","a","t","e","d">>, <<>>>>,
      <<<<"D","E","C","O","D","E","R"," ","r","i","n","g">>, <<>>>>,
      <<<<"L","e","c","t","u","r","e">>, <<"W","h","i","t","e","b","o","a","r","d">>>>,
      <<<<"S","t","e","p"," ","b","y">>, <<"s","t","e","p">>>>,
      <<<<"a","n","i">>, <<"m","a","t","e","d">>>>,
      <<<<"A","n","i","m","a","t","e","d"," ","c","o","d","i","n","g"," ","t","u","t","o","r","i","a","l">>, <<>>>>,
      <<<<"P","l","a","i","n"," ","t","a","l","k">>, <<>>>>,
      <<<<"S","o","r","t"," ","3","D">>, <<>>>> }

\* a candidate's text and the preferences of the request
ContentArgs ==
    { [kind |-> "content", title |-> t[1], description |-> t[2],
       prefer_animated |-> animated, prefer_coding |-> coding] :
        t \in TextSamples, animated \in BOOLEAN, coding \in BOOLEAN }

\* channel names of candidates
ChannelSamples ==
    { <<"3","B","l","u","e","1","B","r","o","w","n"," ","O","f","f","i","c","i","a","l">>,
      <<"R","a","n","d","o","m"," ","C","h","a","n","n","e","l">>,
      <<"K","H","A","N"," ","A","C","A","D","E","M","Y"," ","K","i","d","s">>,
      <<"f","r","e","e","C","o","d","e","C","a","m","p",".","o","r","g">>,
      <<"F","i","r","e"," ","s","h","i","p">>,
      <<>>,
      <<"T","h","e"," ","N","e","t"," ","N","i","n","j","a">>,
      <<"K","h","a","n"," "," ","A","c","a","d","e","m","y">> }

ChannelArgs == { [kind |-> "channel", channel |-> c] : c \in ChannelSamples }

\* unrounded sub-scores of one candidate, in millionths: a cosine similarity,
\* a view and an engagement score of 0..1, a recency score of 0.3..1, one of
\* the duration bands and the two bonuses
SubScoreArgs ==
    { [kind |-> "subscores", semantic |-> sem, views |-> v, engagement |-> e,
       recency |-> r, duration |-> d, content_type_bonus |-> c,
       channel_bonus |-> ch] :
        sem \in {-1000000, -52400, 812300, 1000000},
        v \in {0, 123456, 1000000},
        e \in {0, 33333, 1000000},
        r \in {300000, 654321, 1000000},
        d \in {500000, 700000, 900000, 1000000},
        c \in {0, 150000},
        ch \in {0, 100000} }

\* a query of n characters
QueryOfLen(n) == [i \in 1..n |-> "q"]

\* lengths around those at which the boost phrases stop fitting
QueryLens == {0, 5, 114, 115, 122, 123, 142, 143, 149, 150, MaxQueryLen}

\* spellings of the language hint
LanguageSamples ==
    { <<"e","n","g","l","i","s","h">>, <<"h","i","n","d","i">>, <<"H","i","n","d","i">>,
      <<"H","I","N","D","I">>, <<"f","r","e","n","c","h">>, <<>> }

QueryArgs ==
    { [kind |-> "query", query |-> QueryOfLen(n), prefer_animated |-> animated,
       prefer_coding |-> coding, language |-> language] :
        n \in QueryLens, animated \in BOOLEAN, coding \in BOOLEAN,
        language \in LanguageSamples }

FnArgs ==
    QueryArgs \cup SubScoreArgs \cup HmsArgs \cup RawArgs \cup PublishArgs \cup DurationArgs \cup FallbackArgs
    \cup DaysArgs \cup ContentArgs \cup ChannelArgs

FnInit ==
    /\ RankInit
    /\ initEnv = "ready"
    /\ weights = "present"
    /\ ProcAtRest
    /\ fpc = {}
    /\ arg \in FnArgs
    /\ out = NoOut

\* parse_duration (lines 51-71) on the ISO 8601 string
ParseDuration ==
    /\ arg.kind \in {"hms", "raw"}
    /\ "parse_duration" \notin fpc
    /\ out' = [structured |-> parse_duration(arg.iso)] @@ out
    /\ fpc' = fpc \cup {"parse_duration"}
    /\ UNCHANGED <<arg, rankVars, procVars>>

\* the fallback's timestamp parsing (lines 211-217) on the colon string
ParseTimestamp ==
    /\ arg.kind \in {"hms", "raw"}
    /\ "timestamp" \notin fpc
    /\ out' = [fallback |-> fallback_duration(arg.colon)] @@ out
    /\ fpc' = fpc \cup {"timestamp"}
    /\ UNCHANGED <<arg, rankVars, procVars>>

\* line 324: the days since publication the scores use
DaysAgo ==
    /\ arg.kind = "publish"
    /\ "days_ago" \notin fpc
    /\ out' = [days_ago |-> days_ago_of(arg.published_at)] @@ out
    /\ fpc' = fpc \cup {"days_ago"}
    /\ UNCHANGED <<arg, rankVars, procVars>>

\* lines 330-334: calculate_engagement_score on those days
Engagement ==
    /\ arg.kind = "publish"
    /\ "days_ago" \in fpc
    /\ "engagement" \notin fpc
    /\ out' = [engagement_score |->
                   calculate_engagement_score(arg.views, arg.likes, out.days_ago)]
              @@ out
    /\ fpc' = fpc \cup {"engagement"}
    /\ UNCHANGED <<arg, rankVars, procVars>>

\* lines 340-348: the duration bands
DurationScore ==
    /\ arg.kind = "duration"
    /\ "duration_score" \notin fpc
    /\ out' = [duration_score |-> duration_score_of(arg.duration)] @@ out
    /\ fpc' = fpc \cup {"duration_score"}
    /\ UNCHANGED <<arg, rankVars, procVars>>

\* lines 203-238: the fallback block on one answer of its provider
SearchFallback ==
    /\ arg.kind = "fallback"
    /\ "search_fallback" \notin fpc
    /\ out' = [searched |-> search_fallback(<<>>, OverFetch, arg.world)] @@ out
    /\ fpc' = fpc \cup {"search_fallback"}
    /\ UNCHANGED <<arg, rankVars, procVars>>

\* the results out holds under a name, none before the first
Computed(name) == IF name \in fpc THEN out[name] ELSE <<>>

\* line 337: the recency score of the next candidate
RecencyScore ==
    /\ arg.kind = "days"
    /\ Len(Computed("recency_score")) < Len(arg.days_ago)
    /\ LET done == Computed("recency_score")
           days_ago == arg.days_ago[Len(done) + 1]
       IN  out' = [recency_score |-> Append(done, recency_score_of(days_ago))]
                  @@ out
    /\ fpc' = fpc \cup {"recency_score"}
    /\ UNCHANGED <<arg, rankVars, procVars>>

\* lines 351-352: the content classifier on the candidate
Classify ==
    /\ arg.kind = "content"
    /\ "is_animated" \notin fpc
    /\ out' = [is_animated |-> is_animated_content(arg.title, arg.description),
               is_coding |-> is_coding_content(arg.title, arg.description)]
              @@ out
    /\ fpc' = fpc \cup {"is_animated", "is_coding"}
    /\ UNCHANGED <<arg, rankVars, procVars>>

\* lines 354-358: the content-type bonus
ContentBonus ==
    /\ arg.kind = "content"
    /\ "is_animated" \in fpc
    /\ "content_type_bonus" \notin fpc
    /\ out' = [content_type_bonus |->
                   content_type_bonus_of(arg.prefer_animated, arg.prefer_coding,
                                         out.is_animated, out.is_coding)]
              @@ out
    /\ fpc' = fpc \cup {"content_type_bonus"}
    /\ UNCHANGED <<arg, rankVars, procVars>>

\* lines 361-368: the quality channel bonus
ChannelBonus ==
    /\ arg.kind = "channel"
    /\ "channel_bonus" \notin fpc
    /\ out' = [channel_bonus |-> channel_bonus_of(arg.channel)] @@ out
    /\ fpc' = fpc \cup {"channel_bonus"}
    /\ UNCHANGED <<arg, rankVars, procVars>>

\* lines 371-379 and 383: the weighted sum and its rounding
FinalScore ==
    /\ arg.kind = "subscores"
    /\ "final_score" \notin fpc
    /\ LET final_score ==
               final_score_of(arg.semantic, arg.views, arg.engagement,
                              arg.recency, arg.duration, arg.content_type_bonus,
                              arg.channel_bonus)
       IN  out' = [final_score |-> RoundDiv(final_score, 10000)] @@ out
    /\ fpc' = fpc \cup {"final_score"}
    /\ UNCHANGED <<arg, rankVars, procVars>>

\* lines 280-292: the search query of the request
BuildSearchQuery ==
    /\ arg.kind = "query"
    /\ "search_query" \notin fpc
    /\ out' = [search_query |->
                   build_search_query(arg.query, arg.prefer_animated,
                                      arg.prefer_coding, arg.language)]
              @@ out
    /\ fpc' = fpc \cup {"search_query"}
    /\ UNCHANGED <<arg, rankVars, procVars>>

FnNext ==
    \/ BuildSearchQuery
    \/ FinalScore
    \/ RecencyScore
    \/ Classify
    \/ ContentBonus
    \/ ChannelBonus
    \/ ParseDuration
    \/ ParseTimestamp
    \/ DaysAgo
    \/ Engagement
    \/ DurationScore
    \/ SearchFallback

SpecFn == FnInit /\ [][FnNext]_vars

\* ------------------------------------------------------------------------
\* Properties
\* ------------------------------------------------------------------------
Range(seq) == { seq[i] : i \in 1..Len(seq) }

CountIn(seq, x) == Cardinality({ i \in 1..Len(seq) : seq[i] = x })

RECURSIVE IsSubseq(_, _)
IsSubseq(a, b) ==
    IF Len(a) = 0 THEN TRUE
    ELSE IF Len(b) = 0 THEN FALSE
    ELSE IF Head(a) = Head(b) THEN IsSubseq(Tail(a), Tail(b))
    ELSE IsSubseq(a, Tail(b))

CandidateFields ==
    {"id", "url", "title", "description", "thumbnail", "channel", "published_at",
     "duration", "duration_minutes", "views", "likes", "comments"}

\* the candidate a scored video was built from
CandidateOf(sv) == [f \in CandidateFields |-> sv[f]]

\* semantic_search has returned a list
Returned == pc = "return" \/ (pc = "done" /\ response.success)

\* C1: the list rank returns has exactly min(10, n) items, n the number of
\* candidates that survived the duration filter; every returned item is a
\* scored candidate, and no scored candidate left out of the list has a
\* final_score greater than a returned one's.
C1_TopTen ==
    Returned =>
        /\ Len(top_videos) = Min(10, Len(videos))
        /\ Len(scored_videos) = Len(videos)
        /\ \A x \in Range(top_videos) :
               CountIn(top_videos, x) <= CountIn(scored_videos, x)
        /\ \A x \in Range(scored_videos) :
               CountIn(top_videos, x) < CountIn(scored_videos, x)
               => \A i \in 1..Len(top_videos) :
                      x.final_score <= top_videos[i].final_score

\* more than 10 candidates survived and 10 were returned
C1_Witness ==
    /\ Returned
    /\ Len(videos) > 10
    /\ Len(top_videos) = 10

\* C2: the returned list is ordered by final_score descending, and the
\* candidates of equal final_score appear in the order in which the Candidate
\* Source returned them.
C2_SortedStable ==
    Returned =>
        /\ \A i, j \in 1..Len(top_videos) :
               i < j => top_videos[i].final_score >= top_videos[j].final_score
        /\ \A s \in { x.final_score : x \in Range(top_videos) } :
               LET tied == SelectSeq(top_videos, LAMBDA x : x.final_score = s)
               IN  IsSubseq([i \in 1..Len(tied) |-> CandidateOf(tied[i])],
                            lastSearch.returned)

\* a returned list with two different candidates of equal score, a lower
\* score after them, and a first item that was not the source's first
C2_Witness ==
    /\ Returned
    /\ \E i, j, k \in 1..Len(top_videos) :
           /\ i < j /\ j < k
           /\ top_videos[i].final_score = top_videos[j].final_score
           /\ top_videos[i].id # top_videos[j].id
           /\ top_videos[k].final_score < top_videos[j].final_score
    /\ CandidateOf(top_videos[1]) # lastSearch.returned[1]

\* 30 candidates with durations 1, 2, ..., 30 minutes
OneToThirty == [i \in 1..30 |-> [duration_minutes |-> Minutes(i)]]

\* C3: the first-pass filter keeps exactly the candidates of the first search
\* with 2 <= duration_minutes <= max_duration_minutes, both bounds inclusive,
\* in their original order; of durations 1..30 with max_duration_minutes = 10
\* it keeps exactly the 9 candidates with durations 2..10.
C3_FirstPass ==
    (filterPass = "first" /\ pc \in {"relax", "score"}) =>
        /\ videos =
               SelectSeq(lastSearch.returned,
                         LAMBDA v :
                             /\ 2 * 60 <= v.duration_minutes
                             /\ v.duration_minutes
                                    <= request.max_duration_minutes.val * 60)
        /\ first_pass_filter(OneToThirty, 10) =
               [i \in 1..9 |-> [duration_minutes |-> Minutes(i + 1)]]

\* the first pass kept a candidate exactly at the maximum and dropped another
C3_Witness ==
    /\ filterPass = "first"
    /\ pc = "score"
    /\ Len(videos) < Len(lastSearch.returned)
    /\ \E i \in 1..Len(videos) :
           videos[i].duration_minutes = Minutes(request.max_duration_minutes.val)

\* the first-pass filter has run and kept nothing, and the retry that follows
\* is over
FirstPassKeptNone == firstKept = 0 /\ pc \notin {"relax", "retry"}

TwoEqualSearches ==
    /\ Len(searchCalls) = 2
    /\ searchCalls[2] = searchCalls[1]
    /\ searchCalls[2].query = search_query
    /\ searchCalls[2].max_results = 30

\* C4 as claimed: in every rank call in which zero candidates remain after the
\* first-pass duration filter (also when the first search found none to
\* filter), the Candidate Source is invoked a second time with the same query
\* and the same count of 30.
C4_AsClaimed ==
    (Returned /\ (firstKept = 0 \/ (firstKept = -1 /\ Len(videos) = 0)))
        => TwoEqualSearches

\* C4 amended: in every rank call in which the first search returned at least
\* one candidate and the first-pass filter kept none, the Candidate Source is
\* invoked a second time with the same search query and the same count of 30;
\* a rank call whose first search returns no candidate returns the empty list
\* after that one search.
C4_RetryAfterEmptyFilter ==
    /\ FirstPassKeptNone => TwoEqualSearches
    /\ (Returned /\ firstKept = -1)
           => (Len(searchCalls) = 1 /\ Len(top_videos) = 0)

\* the first pass kept nothing of a non-empty answer, and the second search
\* gave the videos that were returned
C4_Witness ==
    /\ pc = "done"
    /\ firstKept = 0
    /\ Len(searchCalls) = 2
    /\ Len(top_videos) > 0

\* C5: the relaxed pass keeps exactly the candidates of the second search with
\* duration_minutes <= 15, whatever max_duration_minutes is and with no lower
\* bound, so a candidate shorter than 2 minutes (duration 0 included) is
\* scored and returned on that pass.
C5_RelaxedPass ==
    (filterPass = "relaxed" /\ pc = "score") =>
        videos = SelectSeq(lastSearch.returned,
                           LAMBDA v : v.duration_minutes <= 15 * 60)

\* a video of duration 0 is returned through the relaxed pass
C5_Witness ==
    /\ Returned
    /\ filterPass = "relaxed"
    /\ \E i \in 1..Len(top_videos) : top_videos[i].duration_minutes = 0

\* C6: a rank call invokes the Candidate Source at most twice, the second time
\* only when the first-pass filter kept no candidate; there is no third search
\* whatever the second one returns.
C6_AtMostTwoSearches ==
    /\ Len(searchCalls) <= 2
    /\ Len(searchCalls) = 2 => firstKept = 0

\* the second search returned nothing and the call ended without a third
C6_Witness ==
    /\ pc = "done"
    /\ Len(searchCalls) = 2
    /\ Len(lastSearch.returned) = 0

Searched == lastSearch.apiKind # "none"

\* C7: within one search the structured search is attempted first and the
\* fallback is queried if and only if the structured search yielded an empty
\* list; a non-empty structured list is returned as it is, without the
\* fallback being called.
C7_FallbackOrder ==
    Searched =>
        /\ lastSearch.trace \in {<<"api">>, <<"api", "fallback">>}
        /\ lastSearch.trace = <<"api", "fallback">>
               <=> Len(lastSearch.apiReturned) = 0
        /\ Len(lastSearch.apiReturned) > 0
               => /\ lastSearch.returned = lastSearch.apiReturned
                  /\ lastSearch.fbKind = "not_called"

\* the structured search yielded candidates and they were returned
C7_Witness ==
    /\ Searched
    /\ Len(lastSearch.apiReturned) > 0
    /\ lastSearch.returned = lastSearch.apiReturned
    /\ lastSearch.trace = <<"api">>

ApiFailures == {"search_fails", "details_fail", "parse_fails"}

FbFailures == {"import_fails", "call_raises", "parse_fails"}

\* C8: without a structured client (no credential, no client library, or a
\* failed construction) the structured search returns an empty list and issues
\* no provider call; when a provider call fails, or an item of the answer
\* cannot be read, it returns an empty list, never a partial one.
C8_StructuredFailsEmpty ==
    /\ initEnv # "ready" => youtube = "None"
    /\ Searched =>
        /\ youtube = "None"
               => /\ lastSearch.apiKind = "no_client"
                  /\ lastSearch.apiCalls = 0
                  /\ Len(lastSearch.apiReturned) = 0
        /\ lastSearch.apiKind \in ApiFailures
               => Len(lastSearch.apiReturned) = 0
        /\ lastSearch.apiKind = "search_fails" => lastSearch.apiCalls = 1

\* the details call failed after the search call had succeeded
C8_Witness ==
    /\ lastSearch.apiKind = "details_fail"
    /\ lastSearch.apiCalls = 2
    /\ Len(lastSearch.apiReturned) = 0

\* C9: a failure of the structured source or of the fallback (import, query,
\* record parsing) gives zero candidates from that source and never an
\* exception in the orchestrator: once it has searched, rank raises only with
\* candidates in hand, and when both sources fail the response is the empty
\* success.
C9_SourceFailuresAbsorbed ==
    /\ lastSearch.apiKind \in ApiFailures => Len(lastSearch.apiReturned) = 0
    /\ lastSearch.fbKind \in FbFailures => Len(lastSearch.returned) = 0
    /\ (pc = "raised" /\ Len(searchCalls) > 0) => Len(lastSearch.returned) > 0
    /\ (pc = "done" /\ Searched /\ Len(lastSearch.returned) = 0)
           => response = [success |-> TRUE, count |-> 0, videos |-> <<>>]

\* both sources failed and the endpoint answered with the empty success
C9_Witness ==
    /\ pc = "done"
    /\ lastSearch.apiKind \in ApiFailures
    /\ lastSearch.fbKind \in FbFailures
    /\ response.success
    /\ Len(response.videos) = 0

\* C10: when no candidate survives either filter pass, rank returns an empty
\* list without raising and without scoring anything, and the response is a
\* success with count 0 and an empty videos list.
C10_NoSurvivors ==
    (filterPass = "relaxed" /\ Len(videos) = 0) =>
        /\ pc \in {"score", "sort", "return", "done"}
        /\ embedCalls = 1
        /\ Len(scored_videos) = 0
        /\ Len(top_videos) = 0
        /\ pc = "done"
               => response = [success |-> TRUE, count |-> 0, videos |-> <<>>]

\* the second search returned candidates, none survived, the call is answered
C10_Witness ==
    /\ pc = "done"
    /\ filterPass = "relaxed"
    /\ Len(videos) = 0
    /\ Len(lastSearch.returned) > 0

FailureResponse == [success |-> FALSE, error |-> "TypeError", videos |-> <<>>]

\* C11: the search endpoint never raises to its caller: an exception raised
\* while the request is served is answered, as the next step, with the
\* response {success: false, error: <message>, videos: []}; every answer is
\* either that failure or a success whose count is the length of its videos
\* and at most 10.
C11_NeverRaises ==
    /\ [](pc = "done" =>
             \/ response = FailureResponse
             \/ /\ response.success
                /\ response.count = Len(response.videos)
                /\ response.count <= 10)
    /\ [][pc = "raised" => (pc' = "done" /\ response' = FailureResponse)]_vars
    /\ [][pc' = "done" => pc \in {"return", "raised"}]_vars

\* the scoring loop raised on its second candidate, with one candidate
\* already scored, and the endpoint answered
C11_Witness ==
    /\ pc = "done"
    /\ ~response.success
    /\ Len(scored_videos) > 0
    /\ Len(videos) > Len(scored_videos)

\* C12 as claimed: a failure to load the embedding model is fatal for the
\* process: no request is answered with the failure of the load, and once a
\* load has failed the load is not attempted again by a later request.
C12_AsClaimed ==
    /\ \A t \in Threads : threads[t].resp # "load_error"
    /\ loadAttempts > semanticLoads => loadAttempts = 1

\* C13 as claimed: under any interleaving of overlapping requests each
\* process-wide embedding model is loaded at most once, and the instance the
\* first load cached is the one every later call uses.
C13_AsClaimed ==
    /\ embedLoads <= 1
    /\ semanticLoads <= 1
    /\ embed_model \in {0, 1}

Transcribing == { t \in Threads : threads[t].pc = "transcribe" }

LoadingOrClearing ==
    { t \in Threads : threads[t].pc \in {"load_whisper", "got_whisper", "clearing"} }

\* C14: at any time at most one thread is executing Whisper inference, across
\* extract_video and extract_youtube together, and no load or clear of
\* model_loader overlaps a transcription: each of them runs while its thread
\* holds the one lock.
C14_OneTranscription ==
    /\ Cardinality(Transcribing) <= 1
    /\ Transcribing # {} => LoadingOrClearing = {}
    /\ \A t \in Transcribing \cup LoadingOrClearing : whisper_lock = t

\* extract_video transcribes while extract_youtube, the model in hand, waits
\* for the lock
C14_Witness ==
    \E t, u \in Threads :
        /\ threads[t].op = "extract_video"
        /\ threads[t].pc = "transcribe"
        /\ threads[u].op = "extract_youtube"
        /\ threads[u].pc = "with_whisper_lock"

\* C15: the number of days since publication used for scoring is at least 1
\* (a publish time today or in the future gives 1) and is 365 when the publish
\* timestamp is empty or cannot be parsed; with views >= 0 and likes >= 0 the
\* engagement score is 0.7*min(views/days/10000, 1)
\* + 0.3*min(likes/views*1000/50, 1), the like term being 0 when views = 0
\* (in millionths, within the 2 millionths the integer divisions lose).
C15_DaysAndEngagement ==
    /\ "days_ago" \in fpc =>
           LET p == arg.published_at
               d == out.days_ago
           IN  /\ d >= 1
               /\ p.kind \in {"empty", "invalid"} => d = 365
               /\ (p.kind = "iso" /\ p.day >= NowDay) => d = 1
               /\ (p.kind = "iso" /\ p.day < NowDay) => d = NowDay - p.day
    /\ "engagement" \in fpc =>
           LET d == out.days_ago
               view_part == IF arg.views >= 10000 * d THEN 700000
                            ELSE (70 * arg.views) \div d
               like_part == IF arg.views = 0 THEN 0
                            ELSE IF 20 * arg.likes >= arg.views THEN 300000
                            ELSE (6000000 * arg.likes) \div arg.views
           IN  out.engagement_score - (view_part + like_part) \in -2..2

\* the engagement of a video published in the future, with views and likes
\* below both caps
C15_Witness ==
    /\ "engagement" \in fpc
    /\ arg.published_at.kind = "iso"
    /\ arg.published_at.day > NowDay
    /\ out.days_ago = 1
    /\ arg.views > 0
    /\ arg.likes > 0
    /\ out.engagement_score > 0
    /\ out.engagement_score < Unit

\* C16: for every scored candidate of a rank call, whatever source produced
\* it and whichever filter pass it came through, 0 <= views score <= 1,
\* 0 <= engagement score <= 1, 0.3 <= recency score <= 1.0 and the duration
\* score is one of 1.0, 0.9, 0.7, 0.5 (the scores reported, in thousandths).
C16_SubScoreRanges ==
    \A i \in 1..Len(scored_videos) :
        LET sc == scored_videos[i].scores
        IN  /\ 0 <= sc.views /\ sc.views <= 1000
            /\ 0 <= sc.engagement /\ sc.engagement <= 1000
            /\ 300 <= sc.recency /\ sc.recency <= 1000
            /\ sc.duration \in {1000, 900, 700, 500}

\* a returned list with a candidate at the views cap and a candidate at the
\* recency floor
C16_Witness ==
    /\ Returned
    /\ \E i, j \in 1..Len(top_videos) :
           /\ top_videos[i].views.val > 1000000
           /\ top_videos[i].scores.views = 1000
           /\ top_videos[j].scores.recency = 300
           /\ top_videos[j].scores.duration = 700

\* C17 as claimed: for every duration of h hours, m minutes and s seconds, the
\* structured parser on the ISO 8601 form PT{h}H{m}M{s}S and the fallback
\* parser on the colon form (h:mm:ss, or m:ss when h = 0) give the same
\* duration_minutes.
C17_AsClaimed ==
    (arg.kind = "hms" /\ arg.form = "full"
        /\ {"parse_duration", "timestamp"} \subseteq fpc)
        => out.structured = out.fallback.minutes

\* a timestamp of 2 or 3 colon-separated parts, each a number
WellFormedTimestamp(ts) ==
    LET parts == Split(ts, ":")
    IN  /\ Len(parts) \in {2, 3}
        /\ \A i \in 1..Len(parts) : IsDigits(parts[i])

\* C18 as claimed: in the fallback source a timestamp of 2 parts parses to
\* minutes + seconds/60 and one of 3 parts to hours*60 + minutes + seconds/60,
\* and a malformed timestamp (wrong number of parts, or a part that is no
\* number) gives duration_minutes 0 for that candidate, without an error and
\* without affecting the other candidates of the same search.
C18_AsClaimed ==
    /\ "timestamp" \in fpc =>
           /\ ~out.fallback.raises
           /\ arg.kind = "hms"
                  => out.fallback.minutes = 3600 * arg.h + 60 * arg.m + arg.s
           /\ ~WellFormedTimestamp(arg.colon) => out.fallback.minutes = 0
    /\ "search_fallback" \in fpc =>
           /\ Len(out.searched.videos) = Len(arg.world.videos)
           /\ \A i \in 1..Len(out.searched.videos) :
                  ~WellFormedTimestamp(arg.world.videos[i].timestamp)
                      => out.searched.videos[i].duration_minutes = 0

\* C19: parse_duration on an ISO 8601 string PT#H#M#S returns
\* hours*60 + minutes + seconds/60 rounded to 1 decimal (a multiple of a tenth
\* of a minute no further than half a tenth from the sum), a missing component
\* counting as 0 and the empty string giving 0; PT10M30S gives 10.5 and
\* PT1H5M gives 65.0.
C19_ParseDuration ==
    "parse_duration" \in fpc =>
        /\ arg.kind = "hms" =>
               /\ out.structured % 6 = 0
               /\ out.structured - (3600 * arg.h + 60 * arg.m + arg.s) \in -3..3
        /\ Len(arg.iso) = 0 => out.structured = 0
        /\ arg.iso = <<"P", "T", "1", "0", "M", "3", "0", "S">>
               => out.structured = 630
        /\ arg.iso = <<"P", "T", "1", "H", "5", "M">> => out.structured = 3900

\* PT1H5M, with its seconds missing, has been parsed
C19_Witness ==
    /\ "parse_duration" \in fpc
    /\ arg.iso = <<"P", "T", "1", "H", "5", "M">>
    /\ out.structured = Minutes(65)

\* C20: the duration score of a candidate of d minutes is 1.0 when
\* 5 <= d <= 10, otherwise 0.9 when 3 <= d <= 12, otherwise 0.7 when
\* 2 <= d <= 15, otherwise 0.5; d = 7 gives 1.0, d = 4 gives 0.9, d = 13 gives
\* 0.7, d = 20 gives 0.5 and d = 2 gives 0.7 (d in sixtieths of a minute).
C20_DurationBands ==
    "duration_score" \in fpc =>
        LET d == arg.duration
            sc == out.duration_score
        IN  /\ sc = 1000000 <=> (300 <= d /\ d <= 600)
            /\ sc = 900000 <=> ((180 <= d /\ d < 300) \/ (600 < d /\ d <= 720))
            /\ sc = 700000 <=> ((120 <= d /\ d < 180) \/ (720 < d /\ d <= 900))
            /\ sc = 500000 <=> (d < 120 \/ d > 900)
            /\ d = 7 * 60 => sc = 1000000
            /\ d = 4 * 60 => sc = 900000
            /\ d = 13 * 60 => sc = 700000
            /\ d = 20 * 60 => sc = 500000
            /\ d = 2 * 60 => sc = 700000

\* the candidate of exactly 2 minutes has been scored 0.7
C20_Witness ==
    /\ "duration_score" \in fpc
    /\ arg.duration = Minutes(2)
    /\ out.duration_score = 700000

\* both candidates of the pair have their recency score
RecencyDone == arg.kind = "days" /\ Len(Computed("recency_score")) = 2

\* C21: the recency score is 1.0 for days < 730 and
\* max(0.3, 1 - (days - 730)/1825) otherwise: it is 1.0 at days = 1 and at
\* days = 730, strictly below 1.0 at days = 731, exactly 0.3 for every
\* days >= 2555, and never increases as days grows (in millionths, the decay
\* within the millionth the integer division loses).
C21_Recency ==
    RecencyDone =>
        LET d == arg.days_ago[1]
            r == out.recency_score[1]
            later == out.recency_score[2]
        IN  /\ d < 730 => r = 1000000
            /\ d = 1 => r = 1000000
            /\ d = 730 => r = 1000000
            /\ d = 731 => r < 1000000
            /\ d >= 2555 => r = 300000
            /\ r >= 300000
            /\ (d >= 730 /\ r > 300000)
                   => 1825 * (1000000 - r) \in
                          ((d - 730) * 1000000 - 1825)..((d - 730) * 1000000)
            /\ (d >= 730 /\ r = 300000) => (d - 730) * 1000000 >= 1825 * 699999
            /\ later <= r

\* a candidate still decaying and an older one at the floor
C21_Witness ==
    /\ RecencyDone
    /\ arg.days_ago[1] > 730
    /\ out.recency_score[1] < 1000000
    /\ out.recency_score[1] > 300000
    /\ out.recency_score[2] = 300000

\* C22: the content-type bonus is 0.15 when prefer_animated is set and the
\* candidate is classified animated, otherwise 0.15 when prefer_coding is set
\* and the candidate is classified coding, otherwise 0; it is never more than
\* 0.15, also when both preferences are set and both classifiers fire.
C22_ContentBonus ==
    "content_type_bonus" \in fpc =>
        LET b == out.content_type_bonus
        IN  /\ b \in {0, 150000}
            /\ b = 150000 <=> \/ (arg.prefer_animated /\ out.is_animated)
                              \/ (arg.prefer_coding /\ out.is_coding)

\* both preferences are set, both classifiers fire, the bonus is 0.15
C22_Witness ==
    /\ "content_type_bonus" \in fpc
    /\ arg.prefer_animated /\ arg.prefer_coding
    /\ out.is_animated /\ out.is_coding
    /\ out.content_type_bonus = 150000

\* channel names and whether a quality-channel fragment is in them
ExpectedQuality(channel) ==
    CASE channel = <<"3","B","l","u","e","1","B","r","o","w","n"," ","O","f","f","i","c","i","a","l">> -> TRUE
      [] channel = <<"R","a","n","d","o","m"," ","C","h","a","n","n","e","l">> -> FALSE
      [] channel = <<"K","H","A","N"," ","A","C","A","D","E","M","Y"," ","K","i","d","s">> -> TRUE
      [] channel = <<"f","r","e","e","C","o","d","e","C","a","m","p",".","o","r","g">> -> TRUE
      [] channel = <<"F","i","r","e"," ","s","h","i","p">> -> FALSE
      [] channel = <<>> -> FALSE
      [] channel = <<"T","h","e"," ","N","e","t"," ","N","i","n","j","a">> -> TRUE
      [] channel = <<"K","h","a","n"," "," ","A","c","a","d","e","m","y">> -> FALSE

\* C24: the channel bonus is 0.1 exactly when the lower-cased channel name
\* contains, as a substring, one of the 14 fixed quality-channel fragments,
\* and 0 otherwise; "3Blue1Brown Official" gives 0.1 and "Random Channel"
\* gives 0.
C24_ChannelBonus ==
    /\ Cardinality(quality_channels) = 14
    /\ "channel_bonus" \in fpc =>
           /\ out.channel_bonus = IF ExpectedQuality(arg.channel) THEN 100000 ELSE 0
           /\ arg.channel = <<"3","B","l","u","e","1","B","r","o","w","n"," ","O","f","f","i","c","i","a","l">> => out.channel_bonus = 100000
           /\ arg.channel = <<"R","a","n","d","o","m"," ","C","h","a","n","n","e","l">> => out.channel_bonus = 0

\* the mixed-case "3Blue1Brown Official" has its bonus
C24_Witness ==
    /\ "channel_bonus" \in fpc
    /\ arg.channel = <<"3","B","l","u","e","1","B","r","o","w","n"," ","O","f","f","i","c","i","a","l">>
    /\ out.channel_bonus = 100000

\* titles (with the descriptions of TextSamples) and what the keyword lists
\* make of them: "animated" inside "unanimated", "code" inside "decoder", a
\* keyword in the description only, "step by step" across the join of title
\* and description, "ani" and "mated" kept apart by the joining blank
ExpectedClass(title) ==
    CASE title = <<"U","n","a","n","i","m","a","t","e","d">> -> [animated |-> TRUE, coding |-> FALSE]
      [] title = <<"D","E","C","O","D","E","R"," ","r","i","n","g">> -> [animated |-> FALSE, coding |-> TRUE]
      [] title = <<"L","e","c","t","u","r","e">> -> [animated |-> TRUE, coding |-> FALSE]
      [] title = <<"S","t","e","p"," ","b","y">> -> [animated |-> FALSE, coding |-> TRUE]
      [] title = <<"a","n","i">> -> [animated |-> FALSE, coding |-> FALSE]
      [] title = <<"A","n","i","m","a","t","e","d"," ","c","o","d","i","n","g"," ","t","u","t","o","r","i","a","l">> -> [animated |-> TRUE, coding |-> TRUE]
      [] title = <<"P","l","a","i","n"," ","t","a","l","k">> -> [animated |-> FALSE, coding |-> FALSE]
      [] title = <<"S","o","r","t"," ","3","D">> -> [animated |-> TRUE, coding |-> FALSE]

\* C25: is_animated and is_coding are true exactly when the lower-cased
\* concatenation of title and description contains a keyword of their list as
\* a substring, with no word-boundary check; they depend on title and
\* description only.
C25_Classifier ==
    "is_animated" \in fpc =>
        /\ out.is_animated = ExpectedClass(arg.title).animated
        /\ out.is_coding = ExpectedClass(arg.title).coding

\* a keyword found in the description only, and none of the other list
C25_Witness ==
    /\ "is_animated" \in fpc
    /\ arg.description = <<"W","h","i","t","e","b","o","a","r","d">>
    /\ out.is_animated
    /\ ~out.is_coding

\* 100 times a sub-score or bonus given in millionths, weighted by the
\* hundredths of its weight: the product in units of 1e-8
Weighted(hundredths, millionths) == hundredths * millionths

\* C23: final_score is 0.40*semantic + 0.15*views + 0.15*engagement +
\* 0.10*recency + 0.10*duration + content_type_bonus + channel_bonus of the
\* unrounded sub-scores, rounded to 4 decimals (to the nearest ten-thousandth,
\* whichever way a tie goes); the bonuses count in full, so the score reaches
\* 1.15 and is negative for a negative semantic score.
C23_FinalScore ==
    "final_score" \in fpc =>
        LET exact == Weighted(40, arg.semantic) + Weighted(15, arg.views)
                     + Weighted(15, arg.engagement) + Weighted(10, arg.recency)
                     + Weighted(10, arg.duration)
                     + Weighted(100, arg.content_type_bonus)
                     + Weighted(100, arg.channel_bonus)
            final == out.final_score
        IN  /\ 10000 * final - exact \in -5000..5000
            \* 0.32492 + 0.0185184 + 0.00499995 + 0.0654321 + 0.07 + 0.15
            \* = 0.63387045; the sub-scores rounded to 3 decimals give 0.6336
            /\ ( /\ arg.semantic = 812300 /\ arg.views = 123456
                 /\ arg.engagement = 33333 /\ arg.recency = 654321
                 /\ arg.duration = 700000 /\ arg.content_type_bonus = 150000
                 /\ arg.channel_bonus = 0 ) => final = 6339
            \* -0.4 + 0.03 + 0.05
            /\ ( /\ arg.semantic = -1000000 /\ arg.views = 0
                 /\ arg.engagement = 0 /\ arg.recency = 300000
                 /\ arg.duration = 500000 /\ arg.content_type_bonus = 0
                 /\ arg.channel_bonus = 0 ) => final = -3200

\* every sub-score at 1 and both bonuses: a final score of 1.15
C23_Witness ==
    /\ "final_score" \in fpc
    /\ arg.semantic = 1000000 /\ arg.views = 1000000
    /\ arg.engagement = 1000000 /\ arg.recency = 1000000
    /\ arg.duration = 1000000
    /\ arg.content_type_bonus = 150000 /\ arg.channel_bonus = 100000
    /\ out.final_score = 11500

\* the boost phrases of the request: none or one for the preferences, the
\* animated one first, and one for the language
BoostPhrases ==
    LET preference ==
            IF arg.prefer_animated
            THEN << <<"a","n","i","m","a","t","e","d"," ","e","x","p","l","a","n","a","t","i","o","n"," ","v","i","s","u","a","l">> >>
            ELSE IF arg.prefer_coding
            THEN << <<"c","o","d","i","n","g"," ","t","u","t","o","r","i","a","l"," ","i","m","p","l","e","m","e","n","t","a","t","i","o","n">> >>
            ELSE << >>
        language ==
            IF arg.language \in { <<"h","i","n","d","i">>, <<"H","i","n","d","i">>, <<"H","I","N","D","I">> }
            THEN <<"h","i","n","d","i">> ELSE <<"e","n","g","l","i","s","h">>
    IN  Append(preference, language)

\* the raw query followed by the boost phrases, a blank between the parts
QueryWithBoosts ==
    LET phrases == BoostPhrases
    IN  IF Len(phrases) = 1
        THEN arg.query \o <<" ">> \o phrases[1]
        ELSE arg.query \o <<" ">> \o phrases[1] \o <<" ">> \o phrases[2]

\* C26 as stated: the search query is the raw query followed by 1 or 2 boost
\* phrases (at most one preference phrase, animated before coding, and exactly
\* one language phrase, 'hindi' for a hint equal to hindi whatever its case,
\* 'english' otherwise), and it is never longer than 150 characters.
C26_AsClaimed ==
    "search_query" \in fpc =>
        /\ out.search_query = QueryWithBoosts
        /\ Len(out.search_query) <= 150

\* C26: the search query is the first 150 characters of the raw query
\* followed by its 1 or 2 boost phrases: all of it when that is at most 150
\* characters long, and otherwise cut, so that a boost phrase is shortened or
\* missing.
C26_TruncatedQuery ==
    "search_query" \in fpc =>
        LET full == QueryWithBoosts
            sent == out.search_query
        IN  /\ Len(BoostPhrases) \in {1, 2}
            /\ Len(sent) = IF Len(full) <= 150 THEN Len(full) ELSE 150
            /\ \A i \in 1..Len(sent) : sent[i] = full[i]

\* a query of 150 characters is sent with no boost phrase
C26_Witness ==
    /\ "search_query" \in fpc
    /\ Len(arg.query) = 150
    /\ out.search_query = arg.query

\* C27: in each rank call the semantic context is embedded once and before
\* the first call of the candidate source, no candidate is embedded before
\* the filtering is over, and a call that returns has made 1 embedding call
\* plus one for each candidate that survived the filter, all of which are
\* scored, also on the retry path.
C27_EmbeddingCalls ==
    /\ (pc = "search" /\ searchCalls = <<>>) => embedCalls = 1
    /\ Len(searchCalls) > 0 => embedCalls >= 1
    /\ pc \in {"search", "filter", "relax", "retry", "score"} => embedCalls = 1
    /\ Returned =>
           /\ embedCalls = 1 + Len(scored_videos)
           /\ Len(searchCalls) > 0 => Len(scored_videos) = Len(videos)

\* a call on the retry path that returns two scored candidates after three
\* embedding calls
C27_Witness ==
    /\ Returned
    /\ Len(searchCalls) = 2
    /\ Len(scored_videos) >= 2
    /\ embedCalls = 1 + Len(scored_videos)

\* the fields scoring adds to a candidate
ScoreFields == {"semantic_score", "final_score", "is_animated", "is_coding", "scores"}

\* C28: every returned video is a candidate of the last call of the candidate
\* source in this rank call (on the retry path the second call), is returned
\* no more often than that call listed it, and carries every field of the
\* candidate unchanged next to the added score fields.
C28_ReturnedAreLastCandidates ==
    Returned =>
        LET returned == [i \in 1..Len(top_videos) |-> CandidateOf(top_videos[i])]
        IN  \A i \in 1..Len(top_videos) :
                /\ DOMAIN top_videos[i] = CandidateFields \cup ScoreFields
                /\ returned[i] \in Range(lastSearch.returned)
                /\ CountIn(returned, returned[i])
                       <= CountIn(lastSearch.returned, returned[i])

\* a call on the retry path that returns some but not all candidates of the
\* second search
C28_Witness ==
    /\ Returned
    /\ Len(searchCalls) = 2
    /\ Len(top_videos) >= 1
    /\ Len(top_videos) < Len(lastSearch.returned)

\* C29: a returned video has the duration sub-score 0.5 only if it came
\* through the relaxed pass and is shorter than 2 minutes, or through the
\* first pass of a request with max_duration_minutes above 15 and is longer
\* than 15 minutes; so with max_duration_minutes <= 15 and a first pass that
\* kept a candidate, no returned video has it.
C29_HalfDurationScore ==
    Returned =>
        \A i \in 1..Len(top_videos) :
            LET v == top_videos[i]
                half == v.scores.duration = 500
            IN  /\ half =>
                       \/ /\ filterPass = "relaxed"
                          /\ v.duration_minutes < 2 * 60
                       \/ /\ filterPass = "first"
                          /\ request.max_duration_minutes.val > 15
                          /\ v.duration_minutes > 15 * 60
                /\ ( /\ request.max_duration_minutes.val <= 15
                     /\ filterPass = "first"
                     /\ firstKept >= 1 ) => ~half

\* the first pass of a request for up to 20 minutes returns a video of more
\* than 15 minutes with the duration sub-score 0.5
C29_Witness ==
    /\ Returned
    /\ filterPass = "first"
    /\ \E i \in 1..Len(top_videos) :
           /\ top_videos[i].scores.duration = 500
           /\ top_videos[i].duration_minutes > 15 * 60

\* the threads inside a with block of the Whisper lock
InWithBlock ==
    { t \in Threads :
        threads[t].pc \in {"load_whisper", "got_whisper", "transcribe", "clearing"} }

\* the threads at a with statement of the Whisper lock
AtWithStatement ==
    { t \in Threads :
        threads[t].pc \in {"get_whisper_model", "with_whisper_lock", "clear"} }

\* C30: the Whisper lock is held only by a thread inside a with block, so it
\* is released when the block is left, by a raising load or transcription
\* too, and no thread at a with statement holds it already; with loads and
\* transcriptions that end and a lock granted fairly, a held lock is released,
\* every thread waiting at a with statement gets the lock, and every
\* extraction waiting at its with statement transcribes.
C30_NoDeadlock ==
    /\ [](\A t \in Threads : whisper_lock = t <=> t \in InWithBlock)
    /\ [](\A t \in AtWithStatement : whisper_lock # t)
    /\ \A t \in Threads :
           /\ (whisper_lock = t) ~> (whisper_lock # t)
           /\ (t \in AtWithStatement) ~> (whisper_lock = t)
           /\ (threads[t].pc = "with_whisper_lock") ~> (threads[t].pc = "transcribe")

\* a load has raised in one thread, and another thread, which waited for
\* the lock meanwhile, transcribes
C30_Witness ==
    \E t, u \in Threads :
        /\ threads[t].pc = "done"
        /\ threads[t].resp = "whisper_load_error"
        /\ threads[u].pc = "transcribe"
        /\ whisper_lock = u

====
